---------------------------- MODULE Spec2Model ----------------------------
(***************************************************************************)
(* Offline synchronisation engine of the travel booking application.       *)
(*                                                                         *)
(*   UI thread : SyncService (orchestrator), WorkerManagerService (bridge),*)
(*               DataStoreService (application state), the components that *)
(*               write bookings and start syncs.                           *)
(*   Worker    : data-worker.worker.ts, one handler per received message;  *)
(*               handlers interleave at their awaits.                      *)
(*   Store     : the IndexedDB table "bookings", shared by both sides.     *)
(*                                                                         *)
(* One step of the model is one macrotask of either thread: everything a   *)
(* callback does up to its next await on a store request, a timer or a     *)
(* message.                                                                *)
(***************************************************************************)
EXTENDS Integers, Sequences, FiniteSets, TLC

VARIABLES
    online,          \* NetworkService.isOnline$.value (navigator.onLine)
    bookings,        \* table "bookings": id -> record, DOMAIN = stored ids
    nextId,          \* the table's auto-increment key
    db,              \* worker: TRUE once `db = new OfflineDatabase()` ran
    tickets,         \* table "tickets": id -> record, DOMAIN = cached ids
    state,           \* DataStoreService.state$.value
    messageCounter,  \* WorkerManagerService.messageCounter
    waiting,         \* bridge: request id -> continuation awaiting the response
    toWorker,        \* messages posted to the worker, not yet received
    fromWorker,      \* messages posted by the worker, not yet received
    handlers,        \* worker: request id -> the running handleMessage call
    ret,             \* the latest return of SyncService.syncPendingBookings
    worker,          \* WorkerManagerService.worker !== null
    emitting,        \* DataStoreService: the values the running call has yet
                     \* to pass to state$.next; <<>> between calls
    observer,        \* a subscriber of getBookingStats$: what
                     \* distinctUntilChanged holds for it, NoObserver if
                     \* there is none
    found,           \* the latest return of OfflineStorageService.searchTickets
    localStorage,    \* localStorage.getItem('cache_version'), NoVersion if
                     \* the item is not set
    seeding,         \* DataInitService: call number -> the position of that
                     \* call of initializeSampleData
    navigating       \* the router is opening My Bookings after a submission

vars == <<online, bookings, nextId, db, tickets, state, messageCounter,
          waiting, toWorker, fromWorker, handlers, ret, worker, emitting,
          observer, found, localStorage, seeding, navigating>>

-----------------------------------------------------------------------------
(* Bounds of the model.                                                    *)

MaxBookings == 1      \* bookings ever created in a run of Spec
MaxMsgs == 6          \* requests ever sent to the worker in a run of Spec
MaxChains == 2        \* UI call chains awaiting the worker at one time
MaxAbandoned == 1     \* timed-out requests still in flight at one time
MaxFailures == 2      \* simulated remote failures per reconcile pass
MaxPassBookings == 11 \* bookings in the store of PassSpec

MaxOverlapBookings == 3 \* bookings in the store of OverlapSpec
MaxCount == 2         \* bookings the worker counts in a run of DataStoreSpec
MaxWriteBookings == 2 \* bookings ever saved in a run of WriteSpec
MaxBatch == 2         \* updates in the list of one batch update
MaxBatchMsgs == 3     \* requests ever sent to the worker in a run of BatchSpec
MaxLiveBookings == 2  \* bookings created offline in a run of ReconcileSpec
MaxDay == 2           \* calendar days the cached tickets are for
MaxTicketList == 1    \* tickets in the list of one cacheTickets call
MaxTicketMsgs == 3    \* requests ever sent to the worker in a run of TicketSpec

(* Program constants.                                                      *)

batchSize == 5

-----------------------------------------------------------------------------
(* Generic helpers.                                                        *)

Put(f, k, v) == [x \in DOMAIN f \cup {k} |-> IF x = k THEN v ELSE f[x]]

Drop(f, k) == [x \in DOMAIN f \ {k} |-> f[x]]

Min(a, b) == IF a <= b THEN a ELSE b

Range(s) == {s[k] : k \in 1..Len(s)}

\* The ids of a set of numbers in increasing order (primary-key order).
RECURSIVE SortedSeq(_)
SortedSeq(S) ==
    IF S = {} THEN <<>>
    ELSE LET m == CHOOSE x \in S : \A y \in S : x <= y
         IN <<m>> \o SortedSeq(S \ {m})

EmptyFn == [x \in {} |-> 0]

\* localStorage.getItem of a key that is not set: null
NoVersion == "null"

-----------------------------------------------------------------------------
(* Message ids.                                                            *)

\* The id made of the timestamp alone, two calls falling into one
\* millisecond.
MsgId_TimestampOnly(n) == <<"msg", 0>>

\* generateMessageId: `msg_${Date.now()}_${++this.messageCounter}`
MsgId(n) == <<"msg", n>>

\* broadcastEvent: the id every broadcast carries
EVENT == <<"EVENT">>

-----------------------------------------------------------------------------
(* DataStoreService: the application state and its partial-merge setters.  *)

\* { ...base, ...part }
Merge(base, part) ==
    [k \in DOMAIN base \cup DOMAIN part |->
        IF k \in DOMAIN part THEN part[k] ELSE base[k]]

initialState(isOnline) ==
    [bookings |-> [total |-> 0, pending |-> 0, confirmed |-> 0,
                   cancelled |-> 0, needsSync |-> 0],
     sync     |-> [isSyncing |-> FALSE, lastSyncTime |-> "null",
                   pendingCount |-> 0, failedCount |-> 0, syncErrors |-> <<>>],
     network  |-> [isOnline |-> isOnline]]

updateSyncStatus(s, sync) == [s EXCEPT !.sync = Merge(@, sync)]

updateBookingStats(s, stats) ==
    LET s1 == [s EXCEPT !.bookings = Merge(@, stats)]
    IN IF "needsSync" \in DOMAIN stats
       THEN updateSyncStatus(s1, [pendingCount |-> stats.needsSync])
       ELSE s1

updateNetworkStatus(s, isOnline) == [s EXCEPT !.network = [isOnline |-> isOnline]]

\* The stats of an event merged without their pending count.
MergeEventStats_TotalOnly(s, data) ==
    IF "stats" \in DOMAIN data
    THEN updateBookingStats(s, [total |-> data.stats.bookings])
    ELSE s

\* `if (event.data.stats) this.updateBookingStats({total, needsSync})`
MergeEventStats(s, data) ==
    IF "stats" \in DOMAIN data
    THEN updateBookingStats(s, [total |-> data.stats.bookings,
                                needsSync |-> data.stats.pendingSync])
    ELSE s

\* The event handler taking only the stats of SYNC_COMPLETED.
handleWorkerEvent_StatsOnly(s, event) ==
    CASE event.type \in {"BOOKING_SAVED", "BOOKING_UPDATED", "BOOKING_DELETED",
                         "STATS_CHANGED", "SYNC_COMPLETED"} ->
            MergeEventStats(s, event.data)
      [] event.type = "SYNC_PROGRESS" ->
            updateSyncStatus(s, [isSyncing |-> TRUE])
      [] OTHER -> s

handleWorkerEvent(s, event) ==
    CASE event.type \in {"BOOKING_SAVED", "BOOKING_UPDATED",
                         "BOOKING_DELETED", "STATS_CHANGED"} ->
            MergeEventStats(s, event.data)
      [] event.type = "SYNC_PROGRESS" ->
            updateSyncStatus(s, [isSyncing |-> TRUE])
      [] event.type = "SYNC_COMPLETED" ->
            MergeEventStats(
                updateSyncStatus(s, [isSyncing |-> FALSE,
                                     lastSyncTime |-> "date",
                                     failedCount |-> event.data.results.failed,
                                     syncErrors |-> event.data.results.errors]),
                event.data)
      [] OTHER -> s

\* What each setter passes to state$.next, in the order of the calls: the
\* values the observers of state$ are handed one after the other.

updateSyncStatusEmits(s, sync) == <<updateSyncStatus(s, sync)>>

\* updateBookingStats leaving the sync slice alone.
updateBookingStatsEmits_NoPropagate(s, stats) ==
    <<[s EXCEPT !.bookings = Merge(@, stats)]>>

\* state$.next with the merged bookings slice, then updateSyncStatus on the
\* value just emitted.
updateBookingStatsEmits(s, stats) ==
    LET s1 == [s EXCEPT !.bookings = Merge(@, stats)]
    IN IF "needsSync" \in DOMAIN stats
       THEN <<s1>> \o updateSyncStatusEmits(s1, [pendingCount |-> stats.needsSync])
       ELSE <<s1>>

updateNetworkStatusEmits(s, isOnline) == <<updateNetworkStatus(s, isOnline)>>

MergeEventStatsEmits(s, data) ==
    IF "stats" \in DOMAIN data
    THEN updateBookingStatsEmits(s, [total |-> data.stats.bookings,
                                     needsSync |-> data.stats.pendingSync])
    ELSE <<>>

handleWorkerEventEmits(s, event) ==
    CASE event.type \in {"BOOKING_SAVED", "BOOKING_UPDATED",
                         "BOOKING_DELETED", "STATS_CHANGED"} ->
            MergeEventStatsEmits(s, event.data)
      [] event.type = "SYNC_PROGRESS" ->
            updateSyncStatusEmits(s, [isSyncing |-> TRUE])
      [] event.type = "SYNC_COMPLETED" ->
            LET es == updateSyncStatusEmits(s,
                          [isSyncing |-> FALSE,
                           lastSyncTime |-> "date",
                           failedCount |-> event.data.results.failed,
                           syncErrors |-> event.data.results.errors])
            IN es \o MergeEventStatsEmits(es[Len(es)], event.data)
      [] OTHER -> <<>>

\* JSON.stringify of the bookings slice: its keys in the order initialState
\* gives them, which { ...bookings, ...stats } keeps, each with its value.
Stringify(slice) ==
    <<"total", slice.total, "pending", slice.pending,
      "confirmed", slice.confirmed, "cancelled", slice.cancelled,
      "needsSync", slice.needsSync>>

NoObserver == [subscribed |-> FALSE]

\* getBookingStats$().subscribe(...): the BehaviorSubject replays its value,
\* which distinctUntilChanged lets through as the first.
Subscribe(s) == [subscribed |-> TRUE, last |-> s.bookings, notified |-> TRUE]

\* The pipe letting every value through.
Notify_Every(o, s) ==
    IF ~o.subscribed THEN o
    ELSE [subscribed |-> TRUE, last |-> s.bookings, notified |-> TRUE]

\* state$.next(s) seen through map((state) => state.bookings) and
\* distinctUntilChanged((prev, curr) => JSON.stringify(prev) ===
\* JSON.stringify(curr)): the value is passed on, and kept as the one to
\* compare with, unless it is written like the one kept.
Notify(o, s) ==
    IF ~o.subscribed THEN o
    ELSE IF Stringify(o.last) = Stringify(s.bookings)
    THEN [o EXCEPT !.notified = FALSE]
    ELSE [subscribed |-> TRUE, last |-> s.bookings, notified |-> TRUE]

\* resetState: the module's initialState object, whatever the network was
\* when the module was loaded.
resetStateEmits(loadedOnline) == <<initialState(loadedOnline)>>

-----------------------------------------------------------------------------
(* The UI thread's synchronous code works on one record of the UI-side     *)
(* variables, so that a callback that calls into several services is one   *)
(* step.                                                                   *)

UI == [state |-> state, mc |-> messageCounter, waiting |-> waiting,
       out |-> toWorker, ret |-> ret]

RECURSIVE Rejected(_, _)

\* sendMessage without its check of the worker.
sendMessage_NoCheck(u, type, payload, k) ==
    LET id == MsgId(u.mc + 1)
    IN [u EXCEPT !.mc = @ + 1,
                 !.out = Append(@, [id |-> id, type |-> type, payload |-> payload]),
                 !.waiting = Put(@, id, [type |-> type] @@ k)]

\* WorkerManagerService.sendMessage: without a worker the promise is already
\* rejected and the caller goes on in the same task; otherwise a fresh id,
\* the message posted, the caller parked on the response stream under that
\* id.  `k` is what the caller does when the promise settles.
sendMessage(u, type, payload, k) ==
    IF ~worker THEN Rejected(u, [type |-> type] @@ k)
    ELSE LET id == MsgId(u.mc + 1)
         IN [u EXCEPT !.mc = @ + 1,
                      !.out = Append(@, [id |-> id, type |-> type,
                                         payload |-> payload]),
                      !.waiting = Put(@, id, [type |-> type] @@ k)]

\* SyncService.updatePendingCount, up to its await
updatePendingCount(u, k) == sendMessage(u, "GET_STATS", "null", k)

\* What follows a return of syncPendingBookings in its caller:
\* forceSyncBooking awaits it and then awaits updatePendingCount.
Returned(u, value, via, caller) ==
    LET u1 == [u EXCEPT !.ret = [value |-> value, via |-> via]]
    IN IF caller = "force"
       THEN updatePendingCount(u1, [k |-> "count", caller |-> "none"])
       ELSE u1

\* SyncService.syncPendingBookings, up to its first await
syncPendingBookings(u, caller) ==
    IF u.state.sync.isSyncing THEN Returned(u, FALSE, "syncing", caller)
    ELSE IF ~online THEN Returned(u, FALSE, "offline", caller)
    ELSE updatePendingCount(u, [k |-> "sync_count", caller |-> caller])

\* syncPendingBookings after `await this.updatePendingCount()`
AfterSyncCount(u, caller) ==
    IF u.state.bookings.needsSync = 0
    THEN Returned(u, TRUE, "nothing", caller)
    ELSE sendMessage([u EXCEPT !.state = updateSyncStatus(@, [isSyncing |-> TRUE])],
                     "SYNC_BOOKINGS", "null",
                     [k |-> "sync_run", caller |-> caller])

\* The call returning true whatever the result says.
AfterSyncResolved_AlwaysTrue(u, result, caller) ==
    Returned([u EXCEPT !.state = updateSyncStatus(@, [isSyncing |-> FALSE,
                                                      lastSyncTime |-> "date"])],
             TRUE, "resolved", caller)

\* syncPendingBookings after `await this.workerManager.syncPendingBookings()`
AfterSyncResolved(u, result, caller) ==
    Returned([u EXCEPT !.state = updateSyncStatus(@, [isSyncing |-> FALSE,
                                                      lastSyncTime |-> "date"])],
             result.failed = 0, "resolved", caller)

\* The catch block without its reset of the sync status.
AfterSyncRejected_NoReset(u, caller) ==
    Returned(u, FALSE, "rejected", caller)

\* the catch block of syncPendingBookings
AfterSyncRejected(u, caller) ==
    Returned([u EXCEPT !.state = updateSyncStatus(@, [isSyncing |-> FALSE])],
             FALSE, "rejected", caller)

\* The continuations with the timer and network subscribers leaving the
\* pending bookings alone.
AfterCount_TriggersIdle(u, k) ==
    CASE k.k = "retry" ->
            IF u.state.bookings.needsSync = 0
            THEN u ELSE syncPendingBookings(u, "none")
      [] k.k = "sync_count" -> AfterSyncCount(u, k.caller)
      [] OTHER -> u

\* The continuation of an `await this.updatePendingCount()`:
\* the periodic and network-online subscribers, retryFailedSyncs, and
\* syncPendingBookings itself.
AfterCount(u, k) ==
    CASE k.k = "trigger" ->
            IF u.state.bookings.needsSync > 0
            THEN syncPendingBookings(u, "none") ELSE u
      [] k.k = "retry" ->
            IF u.state.bookings.needsSync = 0
            THEN u ELSE syncPendingBookings(u, "none")
      [] k.k = "sync_count" -> AfterSyncCount(u, k.caller)
      [] OTHER -> u

\* WorkerManagerService.getStats and SyncService.updatePendingCount after the
\* GET_STATS response: both merge the stats into the data store.
StatsReceived(u, stats) ==
    LET part == [total |-> stats.bookings, needsSync |-> stats.pendingSync]
    IN [u EXCEPT !.state = updateBookingStats(updateBookingStats(@, part), part)]

\* A request's promise resolves with `data`.
Resolved(u, k, data) ==
    CASE k.type = "GET_STATS" -> AfterCount(StatsReceived(u, data), k)
      [] k.type = "SYNC_BOOKINGS" -> AfterSyncResolved(u, data, k.caller)
      [] OTHER -> u

\* A request's promise rejects (error response, or the bridge's timeout).
\* updatePendingCount catches and logs; its caller goes on.
Rejected(u, k) ==
    CASE k.type = "GET_STATS" -> AfterCount(u, k)
      [] k.type = "SYNC_BOOKINGS" -> AfterSyncRejected(u, k.caller)
      [] OTHER -> u

\* The variables of the bridge and of the data store after a callback that
\* ended in `u`.
SetCall(u) ==
    /\ state' = u.state
    /\ messageCounter' = u.mc
    /\ waiting' = u.waiting
    /\ toWorker' = u.out
    /\ ret' = u.ret
    /\ worker' = worker
    /\ emitting' = emitting
    /\ observer' = observer
    /\ found' = found
    /\ UNCHANGED <<localStorage, seeding>>

\* The UI-side variables after a callback of a service that ended in `u`.
SetUI(u) ==
    /\ SetCall(u)
    /\ UNCHANGED navigating

-----------------------------------------------------------------------------
(* The store (Dexie table "bookings").                                     *)

\* The query selecting every booking that is not synced.
PendingIds_NotSynced(tbl) == {b \in DOMAIN tbl : tbl[b].syncStatus # "synced"}

\* The query selecting on the booking's status instead of its syncStatus.
PendingIds_ByStatus(tbl) == {b \in DOMAIN tbl : tbl[b].status = "pending"}

\* db.bookings.where('syncStatus').equals('pending'): the matching keys
PendingIds(tbl) == {b \in DOMAIN tbl : tbl[b].syncStatus = "pending"}

\* db.bookings.update(id, changes): the table afterwards
TableUpdate(tbl, b, changes) ==
    IF b \in DOMAIN tbl THEN [tbl EXCEPT ![b] = Merge(@, changes)] ELSE tbl

\* db.bookings.update(id, changes): the number of records it reports, 0 or
\* 1.  A key that is not stored gives 0 and a record the changes alter gives
\* 1.  For a stored record that already has the fields written, the answer
\* is the store library's, whose source is not the application's: either.
UpdateCount(tbl, b, changes) ==
    IF b \notin DOMAIN tbl THEN {0}
    ELSE IF TableUpdate(tbl, b, changes) # tbl THEN {1}
    ELSE {0, 1}

\* batchUpdateBookings: the loop over the list inside its one transaction;
\* the table afterwards and the count of the updates that reported a record.
RECURSIVE BatchTable(_, _)
BatchTable(tbl, us) ==
    IF us = <<>> THEN tbl
    ELSE BatchTable(TableUpdate(tbl, Head(us).id, Head(us).updates), Tail(us))

\* The count with every update of the list counted.
BatchCount_Every(tbl, us) == {Len(us)}

RECURSIVE BatchCount(_, _)
BatchCount(tbl, us) ==
    IF us = <<>> THEN {0}
    ELSE LET u == Head(us)
         IN {r + n : r \in UpdateCount(tbl, u.id, u.updates),
                     n \in BatchCount(TableUpdate(tbl, u.id, u.updates), Tail(us))}

-----------------------------------------------------------------------------
(* The store (Dexie table "tickets").  A ticket is a record { id, from,    *)
(* to, date }; a Date is the calendar day it falls on in local time and    *)
(* its time of day.  The array a query resolves with is taken as the set   *)
(* of its elements.                                                        *)

Places == {"A", "B"}

TicketIds == {"X", "Y"}

DatesUpTo(lastDay) == [day : 1..lastDay, time : {"morning", "evening"}]

\* `date` left out of a call (undefined)
NoDate == [day |-> 0, time |-> "none"]

\* Date.prototype.toDateString: weekday, month, day and year in local time,
\* without the time of day
toDateString(date) == date.day

\* version(1).stores({ tickets: 'id, from, to, date, type' }): the primary
\* key and the indexes of the table
TicketIndexes == {"id", "from", "to", "date", "type"}

\* tickets.bulkPut(list): each ticket stored under its id, replacing what
\* was there
RECURSIVE bulkPut(_, _)
bulkPut(tbl, list) ==
    IF list = <<>> THEN tbl
    ELSE bulkPut(Put(tbl, Head(list).id, Head(list)), Tail(list))

\* tickets.where(index).equals(key).toArray() for the compound key of from
\* and to: the query reads the index of that name, and rejects if the table
\* has none.
WhereFromTo(tbl, index, from, to) ==
    IF index \in TicketIndexes
    THEN [ok |-> TRUE,
          tickets |-> {tbl[id] : id \in {x \in DOMAIN tbl :
                                           tbl[x].from = from /\ tbl[x].to = to}}]
    ELSE [ok |-> FALSE,
          error |-> "KeyPath [from+to] on object store tickets is not indexed"]

\* searchTickets of the worker: the tickets of the route, filtered on the
\* calendar day if a date is given; the rejection of the query is thrown on.
searchTickets(tbl, from, to, date) ==
    LET query == WhereFromTo(tbl, "[from+to]", from, to)
    IN IF ~query.ok THEN query
       ELSE IF date # NoDate
       THEN [query EXCEPT !.tickets =
                {t \in @ : toDateString(t.date) = toDateString(date)}]
       ELSE query

\* OfflineStorageService.searchTickets: the same inside try / catch, the
\* catch block returning [].
searchTicketsCaught(tbl, from, to, date) ==
    LET result == searchTickets(tbl, from, to, date)
    IN IF result.ok THEN result.tickets ELSE {}

\* No search has returned yet.
NoSearch == [returned |-> FALSE]

-----------------------------------------------------------------------------
(* The worker.  A handler is one running call of handleMessage; `pc` is    *)
(* the await it is parked at:                                              *)
(*   "write"   the booking write of save / update / delete                 *)
(*   "select"  sync: the query for the pending bookings                    *)
(*   "wait"    sync: Promise.allSettled over the current batch             *)
(*   "count"   getStats: db.bookings.count()                               *)
(*   "pending" getStats: the count over syncStatus = 'pending'             *)
(*   "finish"  getStats: the toArray() for the logged breakdown, after     *)
(*             which getStats returns and its caller runs to its end       *)
(* `snap` and `stale` record history for the properties and are read by    *)
(* no action.                                                              *)

NoResults == [successful |-> 0, failed |-> 0, errors |-> <<>>]

NewHandler(m, pc) ==
    [id |-> m.id, type |-> m.type, payload |-> m.payload, pc |-> pc,
     sel |-> <<>>, i |-> 0, inflight |-> {}, results |-> NoResults,
     res |-> 0, stats |-> [bookings |-> 0, pendingSync |-> 0],
     snap |-> EmptyFn, stale |-> FALSE]

\* Math.round(x) for x = num / den >= 0: the nearest integer, halves up
MathRound(num, den) == (2 * num + den) \div (2 * den)

\* The percentage rounded down.
Percentage_Floor(i, total) == (i * 100) \div total

\* `Math.round((i / pendingBookings.length) * 100)`
Percentage(i, total) == MathRound(i * 100, total)

\* `Booking ${booking.id}: ${(error as Error).message}`
ErrorString(b, message) == <<"Booking ", b, ": ", message>>

\* broadcastEvent(type, data); `src` names the handler that posted it and is
\* read by no action.
Broadcast(type, data, src) ==
    [id |-> EVENT, type |-> "EVENT", success |-> TRUE,
     data |-> [type |-> type, data |-> data], src |-> src]

\* An answer that does not repeat the type of its request.
Response_Untyped(h, data) ==
    [id |-> h.id, type |-> "RESPONSE", success |-> TRUE, data |-> data]

Response(h, data) ==
    [id |-> h.id, type |-> h.type, success |-> TRUE, data |-> data]

ErrorResponse(m, error) ==
    [id |-> m.id, type |-> m.type, success |-> FALSE, error |-> error]

ProgressData(h) ==
    [current |-> h.i, total |-> Len(h.sel),
     percentage |-> Percentage(h.i, Len(h.sel))]

\* The loop giving up once a booking has failed.
LoopHead_StopOnFailure(h) ==
    IF h.i < Len(h.sel) /\ h.results.failed = 0
    THEN [h EXCEPT !.pc = "wait",
                   !.inflight = (h.i + 1) .. Min(h.i + batchSize, Len(h.sel))]
    ELSE [h EXCEPT !.pc = "count", !.inflight = {}]

\* The loop ending without the stats being taken again.
LoopHead_NoStats(h) ==
    IF h.i < Len(h.sel)
    THEN [h EXCEPT !.pc = "wait",
                   !.inflight = (h.i + 1) .. Min(h.i + batchSize, Len(h.sel))]
    ELSE [h EXCEPT !.pc = "finish", !.inflight = {}]

\* The head of the batch loop of syncPendingBookings with offset h.i: the
\* next batch is announced and its remote calls are started, or the loop
\* ends and getStats is called.
LoopHead(h) ==
    IF h.i < Len(h.sel)
    THEN [h EXCEPT !.pc = "wait",
                   !.inflight = (h.i + 1) .. Min(h.i + batchSize, Len(h.sel))]
    ELSE [h EXCEPT !.pc = "count", !.inflight = {}]

\* The progress announced with the batch counted in.
LoopEvents_AfterBatch(h) ==
    IF h.i < Len(h.sel)
    THEN <<Broadcast("SYNC_PROGRESS",
                     [ProgressData(h) EXCEPT !.current = Min(h.i + batchSize, Len(h.sel))],
                     h.id)>>
    ELSE <<>>

LoopEvents(h) ==
    IF h.i < Len(h.sel)
    THEN <<Broadcast("SYNC_PROGRESS", ProgressData(h), h.id)>>
    ELSE <<>>

\* A store write makes the pending count a getStats call has already read
\* out of date.
Touch(hs) ==
    [id \in DOMAIN hs |->
        IF hs[id].pc = "finish" THEN [hs[id] EXCEPT !.stale = TRUE] ELSE hs[id]]

UIUnchanged ==
    UNCHANGED <<online, state, messageCounter, waiting, toWorker, ret, worker,
                emitting, observer, found,
                   localStorage, seeding, navigating>>

\* type WorkerMessageType: the cases of the switch of handleMessage
WorkerMessageTypes ==
    {"INIT_DB", "SAVE_BOOKING", "GET_BOOKINGS", "UPDATE_BOOKING",
     "DELETE_BOOKING", "SEARCH_TICKETS", "CACHE_TICKETS", "SYNC_BOOKINGS",
     "GET_STATS", "BATCH_UPDATE", "ANALYZE_DATA"}

\* addEventListener('message', ...): handleMessage starts and runs to its
\* first await.  A type the switch has no case for throws at once.  Every
\* operation but INIT_DB starts with a store request; with `db` undefined
\* that throws.  The catch block answers what was thrown with the error.
WorkerReceive ==
    /\ toWorker # <<>>
    /\ LET m == Head(toWorker)
       IN /\ toWorker' = Tail(toWorker)
          /\ IF m.type = "INIT_DB"
             THEN /\ db' = TRUE
                  /\ tickets' = tickets
                  /\ fromWorker' = Append(fromWorker, Response(m, "undefined"))
                  /\ handlers' = handlers
             ELSE IF m.type \notin WorkerMessageTypes
             THEN /\ fromWorker' = Append(fromWorker,
                                          ErrorResponse(m, "Unknown message type"))
                  /\ UNCHANGED <<db, tickets, handlers>>
             ELSE IF ~db
             THEN /\ fromWorker' = Append(fromWorker,
                                          ErrorResponse(m, "db is undefined"))
                  /\ UNCHANGED <<db, tickets, handlers>>
             ELSE /\ handlers' = Put(handlers, m.id,
                        NewHandler(m, CASE m.type = "GET_STATS" -> "count"
                                        [] m.type = "SYNC_BOOKINGS" -> "select"
                                        [] m.type = "SEARCH_TICKETS" -> "search"
                                        [] m.type = "CACHE_TICKETS" -> "cache"
                                        [] m.type \in {"GET_BOOKINGS",
                                                       "ANALYZE_DATA"} -> "read"
                                        [] OTHER -> "write"))
                  /\ UNCHANGED <<db, tickets, fromWorker>>
    /\ UNCHANGED <<online, bookings, nextId, state, messageCounter, waiting, ret,
                   worker, emitting, observer, found,
                      localStorage, seeding, navigating>>

\* syncPendingBookings: the query resolves; the loop starts.
PassSelect(id) ==
    /\ id \in DOMAIN handlers
    /\ handlers[id].pc = "select"
    /\ LET h == [handlers[id] EXCEPT !.sel = SortedSeq(PendingIds(bookings)),
                                     !.snap = bookings]
       IN /\ handlers' = [handlers EXCEPT ![id] = LoopHead(h)]
          /\ fromWorker' = fromWorker \o LoopEvents(h)
    /\ UNCHANGED <<bookings, nextId, db, tickets>>
    /\ UIUnchanged

\* The writes with the failure also resetting the booking's status.
Changes_FailureResets(ok) ==
    IF ok THEN [syncStatus |-> "synced", status |-> "confirmed"]
    ELSE [syncStatus |-> "failed", status |-> "pending"]

\* The writes with the failure confirming the booking as well.
Changes_FailureConfirms(ok) ==
    IF ok THEN [syncStatus |-> "synced", status |-> "confirmed"]
    ELSE [syncStatus |-> "failed", status |-> "confirmed"]

\* The pass writing the amount again with the fields of its outcome.
Changes_Reprices(ok) ==
    IF ok THEN [syncStatus |-> "synced", status |-> "confirmed", totalAmount |-> 0]
    ELSE [syncStatus |-> "failed", totalAmount |-> 0]

\* The fields the pass writes to a booking whose remote call succeeded, or
\* failed.
Changes(ok) ==
    IF ok THEN [syncStatus |-> "synced", status |-> "confirmed"]
    ELSE [syncStatus |-> "failed"]

\* syncPendingBookings: the query rejects (the store fails the request); the
\* catch block of handleMessage answers with the error.
PassSelectFails(id) ==
    /\ id \in DOMAIN handlers
    /\ handlers[id].pc = "select"
    /\ fromWorker' = Append(fromWorker, ErrorResponse(handlers[id], "store error"))
    /\ handlers' = Drop(handlers, id)
    /\ UNCHANGED <<bookings, nextId, db, tickets>>
    /\ UIUnchanged

\* The batch taken as settled with the first booking that is through.
Settled_First(h, k) == [h EXCEPT !.inflight = {}, !.i = @ + batchSize]

\* The handler after the booking at position k of the selection is through:
\* the batch goes on, or it has settled and the loop takes its next turn.
Settled(h, k) ==
    LET h1 == [h EXCEPT !.inflight = @ \ {k}]
    IN IF h1.inflight = {} THEN [h1 EXCEPT !.i = @ + batchSize] ELSE h1

\* One booking of the batch: simulateApiSync settles (ok, or rejects with
\* 'API sync failed'), the store update it leads to is applied and the result
\* is counted.  The timer's settling changes nothing by itself, so it is
\* taken together with the continuation of the awaited update.
PassBooking(id, k, ok) ==
    /\ id \in DOMAIN handlers
    /\ handlers[id].pc = "wait"
    /\ k \in handlers[id].inflight
    /\ ok \/ handlers[id].results.failed < MaxFailures
    /\ LET h == handlers[id]
           b == h.sel[k]
           changes == Changes(ok)
           results == IF ok THEN [h.results EXCEPT !.successful = @ + 1]
                      ELSE [h.results EXCEPT
                              !.failed = @ + 1,
                              !.errors = Append(@, ErrorString(b, "API sync failed"))]
           h1 == Settled([h EXCEPT !.results = results], k)
           h2 == IF h1.inflight = {} THEN LoopHead(h1) ELSE h1
       IN /\ bookings' = TableUpdate(bookings, b, changes)
          /\ handlers' = [Touch(handlers) EXCEPT ![id] = h2]
          /\ fromWorker' = IF h1.inflight = {}
                           THEN fromWorker \o LoopEvents(h1) ELSE fromWorker
    /\ UNCHANGED <<nextId, db, tickets>>
    /\ UIUnchanged

\* getStats: `await db.bookings.count()` (and the tickets count after it)
StatsCount(id) ==
    /\ id \in DOMAIN handlers
    /\ handlers[id].pc = "count"
    /\ handlers' = [handlers EXCEPT
                      ![id].stats.bookings = Cardinality(DOMAIN bookings),
                      ![id].pc = "pending"]
    /\ UNCHANGED <<bookings, nextId, db, tickets, fromWorker>>
    /\ UIUnchanged

\* getStats: `await db.bookings.where('syncStatus').equals('pending').count()`
StatsPending(id) ==
    /\ id \in DOMAIN handlers
    /\ handlers[id].pc = "pending"
    /\ handlers' = [handlers EXCEPT
                      ![id].stats.pendingSync = Cardinality(PendingIds(bookings)),
                      ![id].pc = "finish",
                      ![id].stale = FALSE]
    /\ UNCHANGED <<bookings, nextId, db, tickets, fromWorker>>
    /\ UIUnchanged

\* The operations answering without a broadcast.
FinishMessages_NoEvent(h) ==
    CASE h.type = "GET_STATS" -> <<Response(h, h.stats)>>
      [] h.type = "SYNC_BOOKINGS" -> <<Response(h, h.results)>>
      [] h.type = "DELETE_BOOKING" -> <<Response(h, "undefined")>>
      [] OTHER -> <<Response(h, h.res)>>

\* The operations answering before they broadcast.
FinishMessages_AnswerFirst(h) ==
    CASE h.type = "GET_STATS" -> <<Response(h, h.stats)>>
      [] h.type = "SYNC_BOOKINGS" ->
            <<Response(h, h.results),
              Broadcast("SYNC_COMPLETED",
                        [results |-> h.results, stats |-> h.stats], h.id)>>
      [] h.type = "DELETE_BOOKING" ->
            <<Response(h, "undefined"),
              Broadcast("BOOKING_DELETED",
                        [bookingId |-> h.payload, stats |-> h.stats], h.id)>>
      [] OTHER ->
            <<Response(h, h.res),
              Broadcast("STATS_CHANGED", h.stats, h.id)>>

\* What the caller of getStats posts once getStats has returned.
FinishMessages(h) ==
    CASE h.type = "GET_STATS" -> <<Response(h, h.stats)>>
      [] h.type = "SYNC_BOOKINGS" ->
            <<Broadcast("SYNC_COMPLETED",
                        [results |-> h.results, stats |-> h.stats], h.id),
              Response(h, h.results)>>
      [] h.type = "SAVE_BOOKING" ->
            <<Broadcast("BOOKING_SAVED",
                        [bookingId |-> h.res, stats |-> h.stats], h.id),
              Response(h, h.res)>>
      [] h.type = "UPDATE_BOOKING" ->
            <<Broadcast("BOOKING_UPDATED",
                        [bookingId |-> h.payload.bookingId,
                         updates |-> h.payload.updates, stats |-> h.stats], h.id),
              Response(h, h.res)>>
      [] h.type = "DELETE_BOOKING" ->
            <<Broadcast("BOOKING_DELETED",
                        [bookingId |-> h.payload, stats |-> h.stats], h.id),
              Response(h, "undefined")>>
      [] h.type = "BATCH_UPDATE" ->
            <<Broadcast("STATS_CHANGED", h.stats, h.id),
              Response(h, h.res)>>

\* getStats returns; the operation that called it broadcasts its event and
\* answers the request.
Finish(id) ==
    /\ id \in DOMAIN handlers
    /\ handlers[id].pc = "finish"
    /\ fromWorker' = fromWorker \o FinishMessages(handlers[id])
    /\ handlers' = Drop(handlers, id)
    /\ UNCHANGED <<bookings, nextId, db, tickets>>
    /\ UIUnchanged

\* saveBooking / updateBooking / deleteBooking / batchUpdateBookings: the
\* awaited store write.  updateBooking that matched nothing skips getStats
\* and answers at once.
WorkerWrite(id) ==
    /\ id \in DOMAIN handlers
    /\ handlers[id].pc = "write"
    /\ LET h == handlers[id]
           p == h.payload
       IN CASE h.type = "UPDATE_BOOKING" ->
                 /\ bookings' = TableUpdate(bookings, p.bookingId, p.updates)
                 /\ nextId' = nextId
                 /\ \E result \in UpdateCount(bookings, p.bookingId, p.updates) :
                       IF result > 0
                       THEN /\ handlers' = [Touch(handlers) EXCEPT
                                              ![id].pc = "count",
                                              ![id].res = result]
                            /\ fromWorker' = fromWorker
                       ELSE /\ handlers' = Drop(handlers, id)
                            /\ fromWorker' = Append(fromWorker, Response(h, result))
            [] h.type = "DELETE_BOOKING" ->
                 /\ bookings' = Drop(bookings, p)
                 /\ nextId' = nextId
                 /\ handlers' = [Touch(handlers) EXCEPT ![id].pc = "count"]
                 /\ fromWorker' = fromWorker
            [] h.type = "SAVE_BOOKING" ->
                 /\ bookings' = Put(bookings, nextId, p)
                 /\ nextId' = nextId + 1
                 /\ handlers' = [Touch(handlers) EXCEPT
                                   ![id].pc = "count", ![id].res = nextId]
                 /\ fromWorker' = fromWorker
            [] h.type = "BATCH_UPDATE" ->
                 /\ bookings' = BatchTable(bookings, p)
                 /\ nextId' = nextId
                 /\ \E updateCount \in BatchCount(bookings, p) :
                       handlers' = [Touch(handlers) EXCEPT
                                      ![id].pc = "count",
                                      ![id].res = updateCount]
                 /\ fromWorker' = fromWorker
    /\ UNCHANGED <<db, tickets>>
    /\ UIUnchanged

-----------------------------------------------------------------------------
(* The bridge on the UI thread.                                            *)

WorkerUnchanged == UNCHANGED <<bookings, nextId, db, tickets, handlers>>

\* The callers matched by the type of the message instead of its id.
Subscribers_ByType(w, m) == {id \in DOMAIN w : w[id].type = m.type}

\* responseSubject.pipe(filter((response) => response.id === id)): the
\* waiting callers whose filter lets the message m through.
Subscribers(w, m) == {id \in DOMAIN w : id = m.id}

\* responseSubject.next(m): the subscribers in S take the message in the
\* order they subscribed; each unsubscribes (firstValueFrom) and its caller
\* runs on to its next await.
RECURSIVE Settle(_, _, _)
Settle(u, S, m) ==
    IF S = {} THEN u
    ELSE LET id == CHOOSE x \in S : \A y \in S : x[2] <= y[2]
             k == u.waiting[id]
             u1 == [u EXCEPT !.waiting = Drop(@, id)]
             u2 == IF m.success THEN Resolved(u1, k, m.data) ELSE Rejected(u1, k)
         IN Settle(u2, S \ {id}, m)

\* worker.onmessage: a broadcast goes to the data store; a response settles
\* the request waiting under its id, whose caller runs on to its next await;
\* a response nobody waits for passes the filter of no subscriber.
Deliver ==
    /\ fromWorker # <<>>
    /\ LET m == Head(fromWorker)
       IN /\ fromWorker' = Tail(fromWorker)
          /\ IF m.id = EVENT /\ m.type = "EVENT"
             THEN /\ state' = handleWorkerEvent(state, m.data)
                  /\ UNCHANGED <<messageCounter, waiting, toWorker, ret, worker,
                                 emitting, observer, found,
                                    localStorage, seeding, navigating>>
             ELSE SetUI(Settle(UI, Subscribers(waiting, m), m))
    /\ UNCHANGED online
    /\ WorkerUnchanged

\* The requests still on their way through the worker or back.
InFlight ==
    {toWorker[k].id : k \in 1..Len(toWorker)}
      \cup DOMAIN handlers
      \cup ({fromWorker[k].id : k \in 1..Len(fromWorker)} \ {EVENT})

\* The requests in flight whose caller has stopped waiting.
Abandoned == InFlight \ DOMAIN waiting

\* The timeout rejecting the caller and leaving its subscription in place.
Timeout_KeepsEntry(id) ==
    /\ id \in DOMAIN waiting
    /\ Cardinality(Abandoned) < MaxAbandoned
    /\ SetUI(Rejected(UI, waiting[id]))
    /\ UNCHANGED <<online, fromWorker>>
    /\ WorkerUnchanged

\* timeout(timeoutMs) of sendMessage: the request waited for rejects.  The
\* message stays where it is and the worker goes on with it.
Timeout(id) ==
    /\ id \in DOMAIN waiting
    /\ Cardinality(Abandoned) < MaxAbandoned
    /\ SetUI(Rejected([UI EXCEPT !.waiting = Drop(@, id)], waiting[id]))
    /\ UNCHANGED <<online, fromWorker>>
    /\ WorkerUnchanged

-----------------------------------------------------------------------------
(* What starts work on the UI thread.  A call chain is one awaited request *)
(* after the other; it is started only while fewer than MaxChains are      *)
(* running and the requests it and they may still send fit into MaxMsgs,   *)
(* so that every chain started can run to its end.                         *)

\* How many requests the continuation k may still send.
Remaining(k) ==
    CASE k.k \in {"trigger", "retry"} -> 2
      [] k.k = "sync_count" -> IF k.caller = "force" THEN 2 ELSE 1
      [] k.k = "sync_run" -> IF k.caller = "force" THEN 1 ELSE 0
      [] OTHER -> 0

RECURSIVE Reserved(_, _)
Reserved(w, S) ==
    IF S = {} THEN 0
    ELSE LET id == CHOOSE x \in S : TRUE
         IN Remaining(w[id]) + Reserved(w, S \ {id})

CanStart(need) ==
    /\ Cardinality(DOMAIN waiting) < MaxChains
    /\ messageCounter + Reserved(waiting, DOMAIN waiting) + need <= MaxMsgs

StoreUnchanged ==
    UNCHANGED <<bookings, nextId, db, tickets, handlers, fromWorker>>

\* window 'online': NetworkService.isOnline$.next(true); the subscriber of
\* monitorNetworkChanges updates the data store and awaits updatePendingCount.
GoOnline ==
    /\ ~online
    /\ CanStart(3)
    /\ online' = TRUE
    /\ SetUI(updatePendingCount(
                [UI EXCEPT !.state = updateNetworkStatus(@, TRUE)],
                [k |-> "trigger", caller |-> "none"]))
    /\ StoreUnchanged

\* window 'offline'
GoOffline ==
    /\ online
    /\ online' = FALSE
    /\ state' = updateNetworkStatus(state, FALSE)
    /\ UNCHANGED <<messageCounter, waiting, toWorker, ret, worker, emitting,
                   observer, found,
                      localStorage, seeding, navigating>>
    /\ StoreUnchanged

\* The tick without its filter.
PeriodicTick_Unfiltered ==
    /\ CanStart(3)
    /\ SetUI(updatePendingCount(UI, [k |-> "trigger", caller |-> "none"]))
    /\ UNCHANGED online
    /\ StoreUnchanged

\* initAutoSync / startBackgroundSync: interval(...) filtered on isOnline$.value
PeriodicTick ==
    /\ online
    /\ CanStart(3)
    /\ SetUI(updatePendingCount(UI, [k |-> "trigger", caller |-> "none"]))
    /\ UNCHANGED online
    /\ StoreUnchanged

\* SyncService.syncPendingBookings called directly (syncNow)
SyncNow ==
    /\ CanStart(2)
    /\ SetUI(syncPendingBookings(UI, "none"))
    /\ UNCHANGED online
    /\ StoreUnchanged

\* MyBookingComponent.syncPendingBookings (the button, and the timer set by
\* the combineLatest subscriber): its own three checks come first.  The
\* component's stats.needsSync and isSyncing mirror the data store.
MyBookingSync ==
    /\ state.bookings.needsSync # 0
    /\ online
    /\ ~state.sync.isSyncing
    /\ CanStart(2)
    /\ SetUI(syncPendingBookings(UI, "none"))
    /\ UNCHANGED online
    /\ StoreUnchanged

\* SyncService.retryFailedSyncs
RetryFailedSyncs ==
    /\ online
    /\ CanStart(3)
    /\ SetUI(updatePendingCount(UI, [k |-> "retry", caller |-> "none"]))
    /\ UNCHANGED online
    /\ StoreUnchanged

\* SyncService.forceSyncBooking
ForceSyncBooking ==
    /\ online
    /\ CanStart(3)
    /\ SetUI(syncPendingBookings(UI, "force"))
    /\ UNCHANGED online
    /\ StoreUnchanged

\* BookingComponent.submitBooking -> OfflineStorageService.saveBooking: the
\* UI-side store handle adds the booking; no worker request, no event.
SubmitBooking ==
    /\ nextId <= MaxBookings
    /\ bookings' = Put(bookings, nextId,
                       [status |-> "pending",
                        syncStatus |-> IF online THEN "synced" ELSE "pending"])
    /\ nextId' = nextId + 1
    /\ handlers' = Touch(handlers)
    /\ UNCHANGED <<db, tickets, fromWorker>>
    /\ UIUnchanged

\* MyBookingComponent.cancelBooking of a booking the list shows
CancelBooking(b) ==
    /\ b \in 1..(nextId - 1)
    /\ CanStart(1)
    /\ SetUI(sendMessage(UI, "UPDATE_BOOKING",
                [bookingId |-> b,
                 updates |-> [status |-> "cancelled",
                              syncStatus |-> IF online THEN "synced" ELSE "pending"]],
                [k |-> "op", caller |-> "none"]))
    /\ UNCHANGED online
    /\ StoreUnchanged

\* MyBookingComponent.deleteBooking of a booking the list shows
DeleteBooking(b) ==
    /\ b \in 1..(nextId - 1)
    /\ CanStart(1)
    /\ SetUI(sendMessage(UI, "DELETE_BOOKING", b, [k |-> "op", caller |-> "none"]))
    /\ UNCHANGED online
    /\ StoreUnchanged

-----------------------------------------------------------------------------
(* The application from its start.                                         *)

NoReturn == [value |-> FALSE, via |-> "none"]

\* After the services are constructed: WorkerManagerService has posted
\* INIT_DB if it has its worker; SyncService has subscribed to isOnline$, which replays its value,
\* so with the network up the online subscriber already awaits the count.
StartUI(isOnline) ==
    LET u0 == [state |-> initialState(isOnline), mc |-> 0, waiting |-> EmptyFn,
               out |-> <<>>, ret |-> NoReturn]
        u1 == IF worker
              THEN sendMessage(u0, "INIT_DB", "null",
                               [k |-> "init", caller |-> "none"])
              ELSE u0
    IN IF isOnline
       THEN updatePendingCount([u1 EXCEPT !.state = updateNetworkStatus(@, TRUE)],
                               [k |-> "trigger", caller |-> "none"])
       ELSE [u1 EXCEPT !.state = updateNetworkStatus(@, FALSE)]

Init ==
    /\ worker = TRUE
    /\ online \in BOOLEAN
    /\ bookings = EmptyFn
    /\ nextId = 1
    /\ db = FALSE
    /\ tickets = EmptyFn
    /\ handlers = EmptyFn
    /\ fromWorker = <<>>
    /\ emitting = <<>>
    /\ observer = NoObserver
    /\ found = NoSearch
    /\ localStorage = NoVersion
    /\ seeding = EmptyFn
    /\ navigating = FALSE
    /\ state = StartUI(online).state
    /\ messageCounter = StartUI(online).mc
    /\ waiting = StartUI(online).waiting
    /\ toWorker = StartUI(online).out
    /\ ret = StartUI(online).ret

\* The steps of the worker's handlers that every operation shares.
WorkerSteps ==
    \/ WorkerReceive
    \/ \E id \in DOMAIN handlers : StatsCount(id)
    \/ \E id \in DOMAIN handlers : StatsPending(id)
    \/ \E id \in DOMAIN handlers : Finish(id)

\* The steps of a reconcile pass.
PassSteps ==
    \/ \E id \in DOMAIN handlers : PassSelect(id)
    \/ \E id \in DOMAIN handlers : PassSelectFails(id)
    \/ \E id \in DOMAIN handlers :
         \E k \in handlers[id].inflight : \E ok \in BOOLEAN : PassBooking(id, k, ok)

\* The orchestrator with all its triggers, the bridge with its timeout, the
\* worker, and bookings created on the UI thread.
Next ==
    \/ WorkerSteps
    \/ PassSteps
    \/ Deliver
    \/ \E id \in DOMAIN waiting : Timeout(id)
    \/ GoOnline
    \/ GoOffline
    \/ PeriodicTick
    \/ SyncNow
    \/ MyBookingSync
    \/ RetryFailedSyncs
    \/ ForceSyncBooking
    \/ SubmitBooking

Spec == Init /\ [][Next]_vars

\* The operations on the store next to a sync: bookings created, cancelled
\* and deleted from the UI, online and offline, every request answered.
StoreNext ==
    \/ WorkerSteps
    \/ PassSteps
    \/ \E id \in DOMAIN handlers : WorkerWrite(id)
    \/ Deliver
    \/ GoOnline
    \/ GoOffline
    \/ SyncNow
    \/ SubmitBooking
    \/ \E b \in 1..MaxBookings : CancelBooking(b)
    \/ \E b \in 1..MaxBookings : DeleteBooking(b)

StoreSpec == Init /\ [][StoreNext]_vars

-----------------------------------------------------------------------------
(* One reconcile pass over a store of any size up to MaxPassBookings: the  *)
(* orchestrator has just sent SYNC_BOOKINGS and nothing else is going on.  *)
(* The UI thread does not take what the worker posts, so fromWorker holds  *)
(* everything the pass has posted, in order.                               *)

\* The (status, syncStatus) pairs the application's operations lead to.
Combos ==
    <<[status |-> "pending",   syncStatus |-> "pending"],
      [status |-> "pending",   syncStatus |-> "synced"],
      [status |-> "cancelled", syncStatus |-> "pending"],
      [status |-> "confirmed", syncStatus |-> "synced"],
      [status |-> "pending",   syncStatus |-> "failed"],
      [status |-> "cancelled", syncStatus |-> "synced"],
      [status |-> "cancelled", syncStatus |-> "failed"]>>

\* A store of n bookings: all pending (off = 0), or the pairs in turn.
PassStore(n, off) ==
    [b \in 1..n |-> IF off = 0 THEN Combos[1]
                    ELSE Combos[((b + off) % Len(Combos)) + 1]]

\* The UI side after syncPendingBookings has counted c >= 1 pending bookings
\* among `total` and sent the request.
PassUI(total, c) ==
    LET u0 == [state |-> updateBookingStats(initialState(TRUE),
                            [total |-> total, needsSync |-> c]),
               mc |-> 2, waiting |-> EmptyFn, out |-> <<>>, ret |-> NoReturn]
    IN AfterSyncCount(u0, "none")

\* With no booking pending the count the request rests on is one that a
\* delete has overtaken.
PassInit ==
    /\ online = TRUE
    /\ \E n \in 0..MaxPassBookings : \E off \in 0..Len(Combos) :
          bookings = PassStore(n, off)
    /\ nextId = Cardinality(DOMAIN bookings) + 1
    /\ worker = TRUE
    /\ db = TRUE
    /\ tickets = EmptyFn
    /\ handlers = EmptyFn
    /\ fromWorker = <<>>
    /\ emitting = <<>>
    /\ observer = NoObserver
    /\ found = NoSearch
    /\ localStorage = NoVersion
    /\ seeding = EmptyFn
    /\ navigating = FALSE
    /\ LET n == Cardinality(DOMAIN bookings)
           c == Cardinality(PendingIds(bookings))
           u == IF c > 0 THEN PassUI(n, c) ELSE PassUI(n + 1, 1)
       IN /\ state = u.state
          /\ messageCounter = u.mc
          /\ waiting = u.waiting
          /\ toWorker = u.out
          /\ ret = u.ret

PassNext ==
    \/ WorkerSteps
    \/ PassSteps

PassSpec == PassInit /\ [][PassNext]_vars

\* The same request with the UI thread taking what the worker posts and
\* with the bridge's timeout.  The UI thread's event loop runs every message
\* task that is ready, and the timer of an awaited request fires.
LiveNext ==
    \/ WorkerSteps
    \/ PassSteps
    \/ Deliver
    \/ \E id \in DOMAIN waiting : Timeout(id)

LiveSpec ==
    /\ PassInit
    /\ [][LiveNext]_vars
    /\ WF_vars(Deliver)
    /\ WF_vars(\E id \in DOMAIN waiting : Timeout(id))

-----------------------------------------------------------------------------
(* Two overlapping invocations of SyncService.syncPendingBookings: both    *)
(* passed the guard while the other awaited its count, and both have sent  *)
(* SYNC_BOOKINGS over a store of pending bookings.                         *)

\* The UI side after INIT_DB, the count of the trigger and the counts of the
\* two invocations, both of which found c pending bookings.
OverlapUI(c) ==
    LET u0 == [state |-> updateBookingStats(initialState(TRUE),
                            [total |-> c, needsSync |-> c]),
               mc |-> 4, waiting |-> EmptyFn, out |-> <<>>, ret |-> NoReturn]
    IN AfterSyncCount(AfterSyncCount(u0, "none"), "none")

OverlapInit ==
    /\ online = TRUE
    /\ \E n \in 1..MaxOverlapBookings : bookings = PassStore(n, 0)
    /\ nextId = Cardinality(DOMAIN bookings) + 1
    /\ worker = TRUE
    /\ db = TRUE
    /\ tickets = EmptyFn
    /\ handlers = EmptyFn
    /\ fromWorker = <<>>
    /\ emitting = <<>>
    /\ observer = NoObserver
    /\ found = NoSearch
    /\ localStorage = NoVersion
    /\ seeding = EmptyFn
    /\ navigating = FALSE
    /\ LET u == OverlapUI(Cardinality(DOMAIN bookings))
       IN /\ state = u.state
          /\ messageCounter = u.mc
          /\ waiting = u.waiting
          /\ toWorker = u.out
          /\ ret = u.ret

OverlapNext ==
    \/ WorkerSteps
    \/ PassSteps
    \/ Deliver

OverlapSpec == OverlapInit /\ [][OverlapNext]_vars

-----------------------------------------------------------------------------
(* The application with a bridge that has no worker: the constructor could *)
(* not create one, or terminateWorker was called.                          *)

\* WorkerManagerService.terminateWorker: worker.terminate() ends the worker's
\* context with everything it was running and everything posted to it.  What
\* the worker had posted and the UI thread has not yet taken is delivered or
\* dropped.
TerminateWorker ==
    /\ worker
    /\ worker' = FALSE
    /\ toWorker' = <<>>
    /\ fromWorker' \in {fromWorker, <<>>}
    /\ handlers' = EmptyFn
    /\ db' = FALSE
    /\ tickets' = tickets
    /\ UNCHANGED <<online, bookings, nextId, state, messageCounter, waiting, ret,
                   emitting, observer, found,
                      localStorage, seeding, navigating>>

\* initializeWorker with and without `typeof Worker !== 'undefined'` and a
\* successful `new Worker(...)`.
AbsentInit ==
    /\ worker \in BOOLEAN
    /\ online \in BOOLEAN
    /\ bookings = EmptyFn
    /\ nextId = 1
    /\ db = FALSE
    /\ tickets = EmptyFn
    /\ handlers = EmptyFn
    /\ fromWorker = <<>>
    /\ emitting = <<>>
    /\ observer = NoObserver
    /\ found = NoSearch
    /\ localStorage = NoVersion
    /\ seeding = EmptyFn
    /\ navigating = FALSE
    /\ state = StartUI(online).state
    /\ messageCounter = StartUI(online).mc
    /\ waiting = StartUI(online).waiting
    /\ toWorker = StartUI(online).out
    /\ ret = StartUI(online).ret

AbsentNext ==
    \/ WorkerSteps
    \/ PassSteps
    \/ Deliver
    \/ \E id \in DOMAIN waiting : Timeout(id)
    \/ GoOnline
    \/ GoOffline
    \/ SyncNow
    \/ ForceSyncBooking
    \/ SubmitBooking
    \/ TerminateWorker

AbsentSpec == AbsentInit /\ [][AbsentNext]_vars

-----------------------------------------------------------------------------
(* The booking operations of the bridge, called on a running worker with   *)
(* any of the arguments below: saves next to the component's cancel and    *)
(* delete (WriteSpec), and batch updates (BatchSpec).                      *)

\* The bookings a caller saves: BookingComponent's record, pending or synced.
SaveInputs ==
    {[status |-> "pending", syncStatus |-> ss] : ss \in {"pending", "synced"}}

\* The lists a caller passes to batchUpdateBookings: up to MaxBatch entries
\* { id, updates }, the ids stored or not.
BatchEntries ==
    {[id |-> b, updates |-> u] :
        b \in 1..(MaxWriteBookings + 1),
        u \in {[status |-> "cancelled"], [syncStatus |-> "pending"]}}

BatchInputs == UNION {[1..n -> BatchEntries] : n \in 0..MaxBatch}

\* The SAVE_BOOKING requests not yet written.
SavesInFlight ==
    Cardinality({k \in 1..Len(toWorker) : toWorker[k].type = "SAVE_BOOKING"})
      + Cardinality({id \in DOMAIN handlers :
                        /\ handlers[id].type = "SAVE_BOOKING"
                        /\ handlers[id].pc = "write"})

\* WorkerManagerService.saveBooking
SaveBooking ==
    /\ nextId + SavesInFlight <= MaxWriteBookings
    /\ CanStart(1)
    /\ \E booking \in SaveInputs :
          SetUI(sendMessage(UI, "SAVE_BOOKING", booking,
                            [k |-> "op", caller |-> "none"]))
    /\ UNCHANGED online
    /\ StoreUnchanged

\* WorkerManagerService.batchUpdateBookings
BatchUpdateBookings ==
    /\ messageCounter < MaxBatchMsgs
    /\ Cardinality(DOMAIN waiting) < MaxChains
    /\ \E updates \in BatchInputs :
          SetUI(sendMessage(UI, "BATCH_UPDATE", updates,
                            [k |-> "op", caller |-> "none"]))
    /\ UNCHANGED online
    /\ StoreUnchanged

WriteNext ==
    \/ WorkerSteps
    \/ \E id \in DOMAIN handlers : WorkerWrite(id)
    \/ Deliver
    \/ SaveBooking
    \/ \E b \in 1..MaxWriteBookings : CancelBooking(b)
    \/ \E b \in 1..MaxWriteBookings : DeleteBooking(b)

WriteSpec == Init /\ [][WriteNext]_vars

\* Batch updates on a store of any content up to MaxWriteBookings bookings,
\* after the start: INIT_DB answered and the bookings counted.
BatchInit ==
    /\ online = TRUE
    /\ \E n \in 0..MaxWriteBookings : \E off \in 0..Len(Combos) :
          bookings = PassStore(n, off)
    /\ nextId = Cardinality(DOMAIN bookings) + 1
    /\ worker = TRUE
    /\ db = TRUE
    /\ tickets = EmptyFn
    /\ handlers = EmptyFn
    /\ fromWorker = <<>>
    /\ toWorker = <<>>
    /\ emitting = <<>>
    /\ observer = NoObserver
    /\ found = NoSearch
    /\ localStorage = NoVersion
    /\ seeding = EmptyFn
    /\ navigating = FALSE
    /\ state = updateBookingStats(initialState(TRUE),
                    [total |-> Cardinality(DOMAIN bookings),
                     needsSync |-> Cardinality(PendingIds(bookings))])
    /\ messageCounter = 2
    /\ waiting = EmptyFn
    /\ ret = NoReturn

BatchNext ==
    \/ WorkerSteps
    \/ \E id \in DOMAIN handlers : WorkerWrite(id)
    \/ Deliver
    \/ BatchUpdateBookings

BatchSpec == BatchInit /\ [][BatchNext]_vars

-----------------------------------------------------------------------------
(* The application left to itself: it starts offline, bookings are created *)
(* while it is offline, then the network comes up and stays up.  After     *)
(* that only the application's own timers and message tasks run: the       *)
(* periodic tick, the worker's handlers, the delivery of what the worker   *)
(* posts, and the bridge's timer for the SYNC_BOOKINGS request, the one    *)
(* request whose answer takes a second per batch.  No remote call fails.   *)

\* OfflineStorageService.saveBooking with navigator.onLine false
SubmitOffline ==
    /\ ~online
    /\ nextId <= MaxLiveBookings
    /\ bookings' = Put(bookings, nextId,
                       [status |-> "pending", syncStatus |-> "pending"])
    /\ nextId' = nextId + 1
    /\ handlers' = Touch(handlers)
    /\ UNCHANGED <<db, tickets, fromWorker>>
    /\ UIUnchanged

\* simulateApiSync resolving for a booking of the batch
PassBookingSucceeds ==
    \E id \in DOMAIN handlers :
       \E k \in handlers[id].inflight : PassBooking(id, k, TRUE)

\* timeout(timeoutMs) running out for the request of a pass
PassTimeout ==
    \E id \in DOMAIN waiting :
       waiting[id].type = "SYNC_BOOKINGS" /\ Timeout(id)

ReconcileInit ==
    /\ Init
    /\ ~online

ReconcileNext ==
    \/ SubmitOffline
    \/ GoOnline
    \/ PeriodicTick
    \/ WorkerSteps
    \/ \E id \in DOMAIN handlers : PassSelect(id)
    \/ PassBookingSucceeds
    \/ Deliver
    \/ PassTimeout

\* The event loops of both threads run every task that is ready; a timer of
\* simulateApiSync that has been set fires.
ReconcileSpec ==
    /\ ReconcileInit
    /\ [][ReconcileNext]_vars
    /\ WF_vars(WorkerSteps)
    /\ WF_vars(\E id \in DOMAIN handlers : PassSelect(id))
    /\ WF_vars(PassBookingSucceeds)
    /\ WF_vars(Deliver)

-----------------------------------------------------------------------------
(* The tickets cache: tickets are cached and searched through the UI       *)
(* thread's own store handle (OfflineStorageService) and through the       *)
(* worker (WorkerManagerService), in any order.                            *)

\* The tickets a caller caches and the lists it passes.
Routes == {r \in [from : Places, to : Places] : r.from # r.to}

TicketInputs ==
    {[id |-> id, from |-> r.from, to |-> r.to, date |-> date] :
        id \in TicketIds, r \in Routes, date \in DatesUpTo(MaxDay)}

TicketLists == UNION {[1..n -> TicketInputs] : n \in 0..MaxTicketList}

\* What a caller searches for: a route, with or without a date; the day
\* after the last one cached included.
SearchInputs ==
    {[from |-> r.from, to |-> r.to, date |-> date] :
        r \in Routes, date \in DatesUpTo(MaxDay + 1) \cup {NoDate}}

TicketsUnchanged ==
    UNCHANGED <<online, bookings, nextId, db, state, messageCounter, waiting,
                toWorker, fromWorker, handlers, ret, worker, emitting,
                observer, localStorage, seeding, navigating>>

\* OfflineStorageService.cacheTickets
CacheTickets ==
    /\ \E list \in TicketLists : tickets' = bulkPut(tickets, list)
    /\ UNCHANGED found
    /\ TicketsUnchanged

\* OfflineStorageService.searchTickets
SearchTickets ==
    /\ \E q \in SearchInputs :
          found' = [returned |-> TRUE, query |-> q,
                    tickets |-> searchTicketsCaught(tickets, q.from, q.to, q.date)]
    /\ UNCHANGED tickets
    /\ TicketsUnchanged

\* WorkerManagerService.cacheTickets
WorkerCacheTickets ==
    /\ messageCounter < MaxTicketMsgs
    /\ Cardinality(DOMAIN waiting) < MaxChains
    /\ \E list \in TicketLists :
          SetUI(sendMessage(UI, "CACHE_TICKETS", list,
                            [k |-> "op", caller |-> "none"]))
    /\ UNCHANGED online
    /\ StoreUnchanged

\* WorkerManagerService.searchTickets
WorkerSearchTickets ==
    /\ messageCounter < MaxTicketMsgs
    /\ Cardinality(DOMAIN waiting) < MaxChains
    /\ \E q \in SearchInputs :
          SetUI(sendMessage(UI, "SEARCH_TICKETS", q,
                            [k |-> "op", caller |-> "none"]))
    /\ UNCHANGED online
    /\ StoreUnchanged

\* The worker's cacheTickets: the awaited bulkPut, then the answer.
WorkerCache(id) ==
    /\ id \in DOMAIN handlers
    /\ handlers[id].pc = "cache"
    /\ tickets' = bulkPut(tickets, handlers[id].payload)
    /\ fromWorker' = Append(fromWorker, Response(handlers[id], "undefined"))
    /\ handlers' = Drop(handlers, id)
    /\ UNCHANGED <<bookings, nextId, db>>
    /\ UIUnchanged

\* The worker's searchTickets: the awaited query, then the answer with the
\* tickets, or from the catch block of handleMessage with the error.
WorkerSearch(id) ==
    /\ id \in DOMAIN handlers
    /\ handlers[id].pc = "search"
    /\ LET h == handlers[id]
           result == searchTickets(tickets, h.payload.from, h.payload.to,
                                   h.payload.date)
       IN fromWorker' = Append(fromWorker,
                               IF result.ok THEN Response(h, result.tickets)
                               ELSE ErrorResponse(h, result.error))
    /\ handlers' = Drop(handlers, id)
    /\ UNCHANGED <<bookings, nextId, db, tickets>>
    /\ UIUnchanged

TicketNext ==
    \/ WorkerReceive
    \/ \E id \in DOMAIN handlers : WorkerCache(id)
    \/ \E id \in DOMAIN handlers : WorkerSearch(id)
    \/ Deliver
    \/ CacheTickets
    \/ SearchTickets
    \/ WorkerCacheTickets
    \/ WorkerSearchTickets

\* After the start, online: INIT_DB answered and the (empty) bookings table
\* counted; nothing cached yet.
TicketInit ==
    /\ online = TRUE
    /\ bookings = EmptyFn
    /\ nextId = 1
    /\ worker = TRUE
    /\ db = TRUE
    /\ tickets = EmptyFn
    /\ handlers = EmptyFn
    /\ fromWorker = <<>>
    /\ toWorker = <<>>
    /\ emitting = <<>>
    /\ observer = NoObserver
    /\ found = NoSearch
    /\ localStorage = NoVersion
    /\ seeding = EmptyFn
    /\ navigating = FALSE
    /\ state = updateBookingStats(initialState(TRUE),
                                  [total |-> 0, needsSync |-> 0])
    /\ messageCounter = 2
    /\ waiting = EmptyFn
    /\ ret = NoReturn

TicketSpec == TicketInit /\ [][TicketNext]_vars

-----------------------------------------------------------------------------
(* The data store on its own, one step per state$.next: its setters called *)
(* with what their callers in the application pass them, in any order.     *)
(* Every value of `state` is a value the observers of state$ are handed;   *)
(* one observer has subscribed to getBookingStats$ at the start.           *)

\* getStats of the worker: { bookings, tickets, pendingSync }
StatsInputs ==
    UNION {{[bookings |-> t, pendingSync |-> p] : p \in 0..t} : t \in 0..MaxCount}

\* The results of a pass: { successful, failed, errors }
ResultsInputs ==
    {[successful |-> n, failed |-> 0, errors |-> <<>>] : n \in 0..MaxCount}
      \cup {[successful |-> n - 1, failed |-> 1,
              errors |-> <<ErrorString(1, "API sync failed")>>] : n \in 1..MaxCount}

\* The events the worker broadcasts.  STATS_CHANGED carries the stats as its
\* data, not under `stats`.
EventInputs ==
    {[type |-> t, data |-> [bookingId |-> 1, stats |-> st]] :
        t \in {"BOOKING_SAVED", "BOOKING_UPDATED", "BOOKING_DELETED"},
        st \in StatsInputs}
      \cup {[type |-> "STATS_CHANGED", data |-> st] : st \in StatsInputs}
      \cup {[type |-> "SYNC_PROGRESS",
              data |-> [current |-> 0, total |-> n, percentage |-> 0]] :
                n \in 1..MaxCount}
      \cup {[type |-> "SYNC_COMPLETED", data |-> [results |-> r, stats |-> st]] :
                r \in ResultsInputs, st \in StatsInputs}

\* The partial sync statuses SyncService.syncPendingBookings passes.
SyncInputs ==
    {[isSyncing |-> TRUE],
     [isSyncing |-> FALSE],
     [isSyncing |-> FALSE, lastSyncTime |-> "date"]}

DataStoreUnchanged ==
    UNCHANGED <<online, bookings, nextId, db, tickets, messageCounter, waiting,
                toWorker,
                fromWorker, handlers, ret, worker>>

\* A call of a setter: its first state$.next; the others are still to come.
Call(es) ==
    /\ emitting = <<>>
    /\ es # <<>>
    /\ state' = Head(es)
    /\ emitting' = Tail(es)
    /\ observer' = Notify(observer, Head(es))
    /\ found' = found
    /\ UNCHANGED <<localStorage, seeding, navigating>>
    /\ DataStoreUnchanged

\* The running call goes on to its next state$.next.
Emit ==
    /\ emitting # <<>>
    /\ state' = Head(emitting)
    /\ emitting' = Tail(emitting)
    /\ observer' = Notify(observer, Head(emitting))
    /\ found' = found
    /\ UNCHANGED <<localStorage, seeding, navigating>>
    /\ DataStoreUnchanged

\* WorkerManagerService.getStats / SyncService.updatePendingCount
UpdateBookingStats ==
    \E st \in StatsInputs :
        Call(updateBookingStatsEmits(state, [total |-> st.bookings,
                                             needsSync |-> st.pendingSync]))

UpdateSyncStatus == \E sync \in SyncInputs : Call(updateSyncStatusEmits(state, sync))

UpdateNetworkStatus == \E b \in BOOLEAN : Call(updateNetworkStatusEmits(state, b))

HandleWorkerEvent == \E e \in EventInputs : Call(handleWorkerEventEmits(state, e))

ResetState == Call(resetStateEmits(online))

DataStoreInit ==
    /\ online \in BOOLEAN
    /\ bookings = EmptyFn
    /\ nextId = 1
    /\ worker = TRUE
    /\ db = FALSE
    /\ tickets = EmptyFn
    /\ handlers = EmptyFn
    /\ fromWorker = <<>>
    /\ toWorker = <<>>
    /\ messageCounter = 0
    /\ waiting = EmptyFn
    /\ ret = NoReturn
    /\ state = initialState(online)
    /\ emitting = <<>>
    /\ observer = Subscribe(state)
    /\ found = NoSearch
    /\ localStorage = NoVersion
    /\ seeding = EmptyFn
    /\ navigating = FALSE

DataStoreNext ==
    \/ UpdateBookingStats
    \/ UpdateSyncStatus
    \/ UpdateNetworkStatus
    \/ HandleWorkerEvent
    \/ ResetState
    \/ Emit

DataStoreSpec == DataStoreInit /\ [][DataStoreNext]_vars

-----------------------------------------------------------------------------
(* Properties of the orchestrator (Spec).                                  *)

\* The requests of type t whose caller still awaits the response.
Awaited(t) == {id \in DOMAIN waiting : waiting[id].type = t}

\* The reconcile passes running in the worker.
Passes == {id \in DOMAIN handlers : handlers[id].type = "SYNC_BOOKINGS"}

\* This step sends a SYNC_BOOKINGS request.
SendsSync == \E id \in DOMAIN waiting' \ DOMAIN waiting :
                waiting'[id].type = "SYNC_BOOKINGS"

\* C1: an invocation of SyncService.syncPendingBookings made while another
\* has not returned returns false and sends no SYNC_BOOKINGS request.  An
\* invocation that has sent its request has not returned while it awaits the
\* response, so no two SYNC_BOOKINGS requests are awaited at one time.
C1_NoSecondRequest == Cardinality(Awaited("SYNC_BOOKINGS")) <= 1

\* C2: at most one reconcile pass is executing in the worker, whatever the
\* interleaving of the triggers and the bridge's timeouts.
C2_OnePassInWorker == Cardinality(Passes) <= 1

\* The pending count this step has obtained from the worker: the count of
\* the GET_STATS response it delivers to its caller, or none (-1).
FreshCount ==
    IF /\ fromWorker # <<>>
       /\ fromWorker' = Tail(fromWorker)
       /\ Head(fromWorker).id \in DOMAIN waiting
       /\ Head(fromWorker).type = "GET_STATS"
       /\ Head(fromWorker).success
    THEN Head(fromWorker).data.pendingSync
    ELSE -1

\* C3: a SYNC_BOOKINGS request is sent only if, at the moment it is sent,
\* isSyncing is false, the network is reachable and the pending count just
\* obtained from the worker for this attempt is greater than 0.
C3_SendGuard ==
    [][SendsSync => /\ ~state.sync.isSyncing
                    /\ online
                    /\ FreshCount > 0]_vars

\* The awaited SYNC_BOOKINGS requests this step settles.
SettledSyncs == Awaited("SYNC_BOOKINGS") \ DOMAIN waiting'

\* This step rejects an awaited request: the bridge's timeout (nothing is
\* taken from the worker) or an error response.
Rejects(id) ==
    \/ fromWorker' = fromWorker
    \/ /\ fromWorker # <<>>
       /\ Head(fromWorker).id = id
       /\ ~Head(fromWorker).success

\* C4: whenever the reconcile call of syncPendingBookings settles (resolved,
\* error response, timeout) the orchestrator sets sync.isSyncing to false; on
\* rejection it returns false and sends no further SYNC_BOOKINGS request.
C4_SettleResets ==
    [][\A id \in SettledSyncs :
          /\ state'.sync.isSyncing = FALSE
          /\ Rejects(id) => /\ ret'.value = FALSE
                            /\ ret'.via = "rejected"
                            /\ ~SendsSync
                            /\ \A k \in 1..Len(toWorker') :
                                  toWorker'[k].type = "SYNC_BOOKINGS"
                                     => k <= Len(toWorker) /\ toWorker[k] = toWorker'[k]]_vars

\* C4 witness: a reconcile call has been rejected by the timeout while the
\* pass goes on in the worker, and the orchestrator is idle again.
C4_Witness ==
    /\ ret.via = "rejected"
    /\ ~state.sync.isSyncing
    /\ Awaited("SYNC_BOOKINGS") = {}
    /\ Passes # {}

-----------------------------------------------------------------------------
(* Properties of one reconcile pass (PassSpec) and of the counts           *)
(* (StoreSpec).                                                            *)

\* The bookings of a table whose syncStatus is v.
WithSyncStatus(tbl, v) == {b \in DOMAIN tbl : tbl[b].syncStatus = v}

\* A pass that has left its batch loop.
LoopDone(h) == h.pc \in {"count", "pending", "finish"}

\* C5: a reconcile pass selects only the bookings whose syncStatus is
\* pending; every booking that is synced (or failed) when the pass selects
\* has all its fields unchanged afterwards, and a pass that finds no booking
\* pending announces nothing, attempts nothing and leaves the store as it is.
C5_OnlyPendingTouched ==
    \A id \in Passes :
       LET h == handlers[id]
       IN h.pc # "select" =>
            /\ Range(h.sel) = WithSyncStatus(h.snap, "pending")
            /\ \A b \in DOMAIN h.snap \ WithSyncStatus(h.snap, "pending") :
                  b \in DOMAIN bookings /\ bookings[b] = h.snap[b]
            /\ WithSyncStatus(h.snap, "pending") = {} =>
                  /\ bookings = h.snap
                  /\ LoopDone(h)
                  /\ h.results = NoResults
                  /\ \A k \in 1..Len(fromWorker) : fromWorker[k].id # EVENT

\* C5 witness: a pass over a store with synced and pending bookings has
\* written its outcomes.
C5_Witness ==
    \E id \in Passes :
       /\ handlers[id].pc = "finish"
       /\ WithSyncStatus(handlers[id].snap, "synced") # {}
       /\ Len(handlers[id].sel) >= 2
       /\ bookings # handlers[id].snap

\* The pending count a getStats call has read is the one it returns.  While
\* no booking has been written since the count was read, it is the number
\* of bookings in the store whose syncStatus is pending.
\* C6: after a create, update, delete or sync, the pendingSync value that
\* getStats returns equals the number of bookings whose syncStatus is pending.
C6_PendingSyncIsCount ==
    \A id \in DOMAIN handlers :
       (handlers[id].pc = "finish" /\ ~handlers[id].stale) =>
           handlers[id].stats.pendingSync =
              Cardinality(WithSyncStatus(bookings, "pending"))

\* C6 witness: the stats taken after an update that made a booking pending
\* (a cancel while offline) are about to be returned.
C6_Witness ==
    \E id \in DOMAIN handlers :
       /\ handlers[id].type = "UPDATE_BOOKING"
       /\ handlers[id].pc = "finish"
       /\ ~handlers[id].stale
       /\ handlers[id].stats.pendingSync = 1

\* The SYNC_PROGRESS events posted so far, in their order.
IsProgress(m) == m.id = EVENT /\ m.data.type = "SYNC_PROGRESS"

IsCompleted(m) == m.id = EVENT /\ m.data.type = "SYNC_COMPLETED"

ProgressEvents == SelectSeq(fromWorker, IsProgress)

\* ceil(n / batchSize)
Batches(n) == (n + batchSize - 1) \div batchSize

\* C7: every one of the n bookings a pass selected is attempted whatever
\* the outcome of the others: when the loop is done each has been written
\* synced or failed, successful + failed = n and length(errors) = failed, in
\* the handler and in the result it answers with.
C7_AllAttempted ==
    /\ \A id \in Passes :
          LET h == handlers[id]
          IN LoopDone(h) =>
               /\ h.results.successful + h.results.failed = Len(h.sel)
               /\ Len(h.results.errors) = h.results.failed
               /\ \A k \in 1..Len(h.sel) :
                     bookings[h.sel[k]].syncStatus \in {"synced", "failed"}
               /\ Cardinality({k \in 1..Len(h.sel) :
                     bookings[h.sel[k]].syncStatus = "failed"}) = h.results.failed
    /\ \A k \in 1..Len(fromWorker) :
          LET m == fromWorker[k]
          IN (m.id # EVENT /\ m.success) =>
               /\ Len(m.data.errors) = m.data.failed
               /\ Batches(m.data.successful + m.data.failed) = Len(ProgressEvents)
               /\ ProgressEvents # <<>> =>
                     m.data.successful + m.data.failed =
                        ProgressEvents[1].data.data.total

\* C7 witness: six pending bookings, exactly one failed.
C7_Witness ==
    \E id \in Passes :
       /\ handlers[id].pc = "finish"
       /\ Len(handlers[id].sel) = 6
       /\ handlers[id].results.successful = 5
       /\ handlers[id].results.failed = 1
       /\ Len(handlers[id].results.errors) = 1

\* The position in the selection of the booking whose attempt ends when the
\* handler goes from h to h2.
Attempted(h, h2) == CHOOSE k \in h.inflight : k \notin h2.inflight \/ h2.pc # "wait"

\* C8: the attempt of a booking ends, on success, with syncStatus synced and
\* status confirmed and the errors as they were; on failure, with syncStatus
\* failed, the status unchanged and exactly one string "Booking <id>: <reason>"
\* appended to the errors.
C8_Outcome ==
    [][\A id \in Passes \cap DOMAIN handlers' :
          LET h == handlers[id]
              h2 == handlers'[id]
          IN (h.pc = "wait" /\ h2.results # h.results) =>
               LET b == h.sel[Attempted(h, h2)]
               IN IF h2.results.successful # h.results.successful
                  THEN /\ h2.results = [h.results EXCEPT !.successful = @ + 1]
                       /\ bookings'[b].syncStatus = "synced"
                       /\ bookings'[b].status = "confirmed"
                  ELSE /\ h2.results.failed = h.results.failed + 1
                       /\ h2.results.successful = h.results.successful
                       /\ h2.results.errors =
                             Append(h.results.errors,
                                    <<"Booking ", b, ": ", "API sync failed">>)
                       /\ bookings'[b].syncStatus = "failed"
                       /\ bookings'[b].status = bookings[b].status
                       /\ \A c \in DOMAIN bookings \ {b} : bookings'[c] = bookings[c]]_vars

\* C8 witness: a pass has confirmed one booking and failed a cancelled one,
\* which is still cancelled.
C8_Witness ==
    \E id \in Passes :
       /\ handlers[id].results.successful >= 1
       /\ handlers[id].results.failed >= 1
       /\ \E k \in 1..Len(handlers[id].sel) :
             bookings[handlers[id].sel[k]] =
                [status |-> "cancelled", syncStatus |-> "failed"]

\* The offsets, totals and the one-to-one match of announcements and batches.
ProgressShape ==
    /\ \A k \in 1..Len(ProgressEvents) :
          LET d == ProgressEvents[k].data.data
          IN /\ d.current % batchSize = 0
             /\ 0 <= d.current /\ d.current < d.total
             /\ \A id \in Passes : d.total = Len(handlers[id].sel)
    /\ \A id \in Passes :
          handlers[id].pc = "wait" =>
             \E k \in 1..Len(ProgressEvents) :
                ProgressEvents[k].data.data.current = handlers[id].i

\* C9 as claimed: the SYNC_PROGRESS event before the batch at offset i of n
\* carries current = i, total = n and percentage = floor(i * 100 / n).
C9_PercentageFloor ==
    /\ ProgressShape
    /\ \A k \in 1..Len(ProgressEvents) :
          LET d == ProgressEvents[k].data.data
          IN d.percentage = (d.current * 100) \div d.total

\* C9 amended: the SYNC_PROGRESS event before the batch at offset i of n
\* carries current = i, total = n and percentage = the integer nearest to
\* i * 100 / n, a half rounded up (Math.round).
C9_PercentageNearest ==
    /\ ProgressShape
    /\ \A k \in 1..Len(ProgressEvents) :
          LET d == ProgressEvents[k].data.data
          IN /\ 2 * d.total * d.percentage <= 200 * d.current + d.total
             /\ 200 * d.current + d.total < 2 * d.total * (d.percentage + 1)

\* C9 witness: 5 of 8 is 62.5 percent, announced as 63.
C9_Witness ==
    \E k \in 1..Len(ProgressEvents) :
       ProgressEvents[k].data.data = [current |-> 5, total |-> 8, percentage |-> 63]

\* C10: a pass over n pending bookings posts exactly ceil(n / 5)
\* SYNC_PROGRESS events, one before each batch, with the current values
\* 0, 5, 10, ... in this order, all of them before its SYNC_COMPLETED.
C10_ProgressSequence ==
    /\ \A k \in 1..Len(ProgressEvents) :
          ProgressEvents[k].data.data.current = batchSize * (k - 1)
    /\ \A id \in Passes :
          LET h == handlers[id]
          IN /\ h.pc = "wait" => Len(ProgressEvents) = (h.i \div batchSize) + 1
             /\ LoopDone(h) => Len(ProgressEvents) = Batches(Len(h.sel))
    /\ \A k \in 1..Len(fromWorker) :
          IsCompleted(fromWorker[k]) =>
             /\ \A j \in 1..Len(fromWorker) : IsProgress(fromWorker[j]) => j < k
             /\ Len(ProgressEvents) =
                   Batches(fromWorker[k].data.data.results.successful
                             + fromWorker[k].data.data.results.failed)

\* C10 witness: a pass over eleven bookings has posted three announcements
\* and then SYNC_COMPLETED.
C10_Witness ==
    /\ Len(ProgressEvents) = 3
    /\ \E k \in 1..Len(fromWorker) : IsCompleted(fromWorker[k])

\* C11: within one pass the batches run strictly in order: while the remote
\* calls of the batch at offset i are in flight, every booking before it has
\* settled and has its outcome in the store, the calls in flight are of this
\* batch only, and no booking after the batch has been attempted.
C11_BatchesInOrder ==
    \A id \in Passes :
       LET h == handlers[id]
           last == Min(h.i + batchSize, Len(h.sel))
       IN h.pc = "wait" =>
            /\ h.inflight # {}
            /\ h.inflight \subseteq (h.i + 1)..last
            /\ \A k \in 1..h.i :
                  bookings[h.sel[k]].syncStatus \in {"synced", "failed"}
            /\ \A k \in ((h.i + 1)..last) \ h.inflight :
                  bookings[h.sel[k]].syncStatus \in {"synced", "failed"}
            /\ \A k \in h.inflight \cup ((last + 1)..Len(h.sel)) :
                  bookings[h.sel[k]].syncStatus = "pending"
            /\ h.results.successful + h.results.failed
                  = h.i + Cardinality(((h.i + 1)..last) \ h.inflight)

\* C11 witness: the second batch is under way, two of its calls settled.
C11_Witness ==
    \E id \in Passes :
       /\ handlers[id].pc = "wait"
       /\ handlers[id].i = batchSize
       /\ Len(handlers[id].sel) = 2 * batchSize
       /\ Cardinality(handlers[id].inflight) = 3

\* The simulated remote calls in flight in the worker, over all passes.
RemoteCalls ==
    UNION {{<<id, k>> : k \in handlers[id].inflight} : id \in Passes}

\* C12: in every reachable state of the whole system at most batchSize
\* simulated remote-confirmation calls are in flight in the worker.
C12_RemoteCallsBounded == Cardinality(RemoteCalls) <= batchSize

\* The SYNC_COMPLETED events posted so far.
CompletedEvents == SelectSeq(fromWorker, IsCompleted)

\* The answer to a request that succeeded.
IsResult(m) == m.id # EVENT /\ m.success

AbandonedPasses == Passes \ DOMAIN waiting

\* This step takes the message at the head of fromWorker.
Delivers == fromWorker # <<>> /\ fromWorker' = Tail(fromWorker)

GeneratedIds == {MsgId(n) : n \in 1..messageCounter}

\* The ids of the requests this step sends.
NewIds == DOMAIN waiting' \ DOMAIN waiting

\* C15: within one session every id generateMessageId produces differs from
\* every other one it has produced and from the broadcast id 'EVENT'.
C15_FreshIds ==
    /\ [](/\ Cardinality(GeneratedIds) = messageCounter
          /\ EVENT \notin GeneratedIds
          /\ DOMAIN waiting \subseteq GeneratedIds
          /\ InFlight \subseteq GeneratedIds
          /\ \A j, k \in 1..Len(toWorker) :
                toWorker[j].id = toWorker[k].id => j = k)
    /\ [][\A id \in NewIds :
             /\ id \notin GeneratedIds
             /\ id \in GeneratedIds'
             /\ id # EVENT]_vars

\* C15 witness: all the requests of the session have been sent, two of them
\* are awaited.
C15_Witness ==
    /\ messageCounter = MaxMsgs
    /\ Cardinality(DOMAIN waiting) = 2

\* The callers this step settles.
SettledCallers == DOMAIN waiting \ DOMAIN waiting'

\* C16: a message from the worker settles at most one waiting caller, the
\* one whose request id is the message's id.  A broadcast goes to
\* DataStoreService.handleWorkerEvent and settles nobody; a response whose
\* caller has timed out, or that matches no request, settles nobody and
\* changes nothing.
C16_AtMostOneCaller ==
    [][Delivers =>
         LET m == Head(fromWorker)
         IN /\ SettledCallers \subseteq {m.id}
            /\ m.id \in DOMAIN waiting => SettledCallers = {m.id}
            /\ m.id = EVENT =>
                  /\ SettledCallers = {}
                  /\ state' = handleWorkerEvent(state, m.data)
                  /\ UNCHANGED <<waiting, ret, toWorker, messageCounter>>
            /\ (m.id # EVENT /\ m.id \notin DOMAIN waiting) =>
                  UNCHANGED <<state, waiting, ret, toWorker, messageCounter>>]_vars

\* C16 witness: two callers await requests of the same type and the answer
\* to one of them is about to arrive.
C16_Witness ==
    /\ fromWorker # <<>>
    /\ Head(fromWorker).id \in DOMAIN waiting
    /\ \E id \in DOMAIN waiting :
          /\ id # Head(fromWorker).id
          /\ waiting[id].type = Head(fromWorker).type

\* C17: every sendMessage call settles, and settles once: the caller of an
\* awaited request is settled in the end (by the matching response or by its
\* timeout); an id that has been settled is never waited for again; the sync
\* call resolves only with the data of its own successful response; and a
\* rejection of the sync call (timeout included) takes its entry away.
C17_SettlesOnce ==
    /\ \A n \in 1..MaxMsgs :
          (MsgId(n) \in DOMAIN waiting) ~> (MsgId(n) \notin DOMAIN waiting)
    /\ [][NewIds \cap GeneratedIds = {}]_vars
    /\ [][(ret' # ret /\ ret'.via = "resolved") =>
             /\ Delivers
             /\ Head(fromWorker).success
             /\ SettledCallers = {Head(fromWorker).id}
             /\ ret'.value = (Head(fromWorker).data.failed = 0)]_vars
    /\ [][(ret' # ret /\ ret'.via = "rejected") =>
             \E id \in SettledCallers : waiting[id].type = "SYNC_BOOKINGS"]_vars

\* C17 witness: the request has timed out; nobody waits any more while the
\* request is still with the worker, half way through its pass.
C17_Witness ==
    /\ waiting = EmptyFn
    /\ ret.via = "rejected"
    /\ \E id \in Abandoned \cap Passes : handlers[id].i = batchSize


\* C18: while the bridge has no worker, no step of the UI thread consumes a
\* request id, posts a message or registers a waiting entry; a call of
\* syncPendingBookings that gets as far as its SYNC_BOOKINGS request finds
\* the promise rejected at once and returns false through its catch block,
\* the syncing flag lowered again.
C18_AbsentRejects ==
    /\ [][~worker => /\ messageCounter' = messageCounter
                     /\ toWorker' = toWorker
                     /\ DOMAIN waiting' \subseteq DOMAIN waiting]_vars
    /\ [][(/\ ~worker
           /\ SyncNow \/ ForceSyncBooking
           /\ online
           /\ ~state.sync.isSyncing
           /\ state.bookings.needsSync > 0)
            => /\ ret' = [value |-> FALSE, via |-> "rejected"]
               /\ ~state'.sync.isSyncing
               /\ waiting' = waiting]_vars

\* C18 witness: the worker is gone and a sync has been rejected although no
\* SYNC_BOOKINGS request was ever sent (the two ids consumed are those of
\* INIT_DB and of the first count).
C18_Witness ==
    /\ ~worker
    /\ ret.via = "rejected"
    /\ messageCounter = 2
    /\ state.bookings.needsSync > 0


\* C19: once a call of the data store has returned, the pending count of the
\* sync slice equals needsSync of the bookings slice.
C19_PendingCountFollows ==
    emitting = <<>> => state.sync.pendingCount = state.bookings.needsSync

\* C19 witness: a count of pending bookings has been set and has reached the
\* sync slice, a pass having failed for one booking before.
C19_Witness ==
    /\ emitting = <<>>
    /\ state.bookings.needsSync = MaxCount
    /\ state.sync.pendingCount = MaxCount
    /\ state.sync.failedCount = 1

\* C20: no value handed to the observers of state$ has needsSync of the
\* bookings slice differ from the pending count of the sync slice: none is
\* the first half of an update of the two.
C20_NoTornState == state.bookings.needsSync = state.sync.pendingCount


\* The delivery of a broadcast of one of the types in T.
DeliversEvent(T) ==
    /\ Delivers
    /\ Head(fromWorker).id = EVENT
    /\ Head(fromWorker).data.type \in T

\* The stats the worker computed for the event: under `stats` in the data
\* of the booking events, the data itself of STATS_CHANGED.
EventStats(event) ==
    IF event.type = "STATS_CHANGED" THEN event.data ELSE event.data.stats

\* C21: when the data store has handled a BOOKING_SAVED, BOOKING_UPDATED,
\* BOOKING_DELETED or STATS_CHANGED event, bookings.total and
\* bookings.needsSync are the bookings and pendingSync counts of the stats
\* the worker computed for the event.
C21_EventStatsMerged ==
    [][DeliversEvent({"BOOKING_SAVED", "BOOKING_UPDATED", "BOOKING_DELETED",
                      "STATS_CHANGED"})
         => LET stats == EventStats(Head(fromWorker).data)
            IN /\ state'.bookings.total = stats.bookings
               /\ state'.bookings.needsSync = stats.pendingSync]_vars


\* C22: handling SYNC_PROGRESS raises sync.isSyncing and changes nothing
\* else; handling SYNC_COMPLETED lowers it, sets lastSyncTime, takes
\* failedCount and syncErrors from the results and merges the stats into the
\* booking counters, the pending count of the sync slice following.
C22_SyncEventsHandled ==
    /\ [][DeliversEvent({"SYNC_PROGRESS"})
            => state' = [state EXCEPT !.sync.isSyncing = TRUE]]_vars
    /\ [][DeliversEvent({"SYNC_COMPLETED"})
            => LET d == Head(fromWorker).data.data
               IN /\ state'.sync = [isSyncing |-> FALSE,
                                    lastSyncTime |-> "date",
                                    pendingCount |-> d.stats.pendingSync,
                                    failedCount |-> d.results.failed,
                                    syncErrors |-> d.results.errors]
                  /\ state'.bookings = [state.bookings EXCEPT
                                           !.total = d.stats.bookings,
                                           !.needsSync = d.stats.pendingSync]
                  /\ state'.network = state.network]_vars

\* C22 witness: the completion of a pass with a failed booking has been
\* handled and the counters say that no booking is pending any more.
C22_Witness ==
    /\ ~state.sync.isSyncing
    /\ state.sync.lastSyncTime = "date"
    /\ state.sync.failedCount > 0
    /\ Len(state.sync.syncErrors) = state.sync.failedCount
    /\ state.sync.pendingCount = 0
    /\ state.bookings.needsSync = 0


\* C23: the observer of getBookingStats$ is notified by a state$.next exactly
\* when the bookings slice differs from the value it received last, which
\* is always the slice the store holds: an update that leaves the counters
\* as they are, and an update of the sync or the network slice, notify
\* nobody.
C23_NotifiedOnChange ==
    /\ [](observer.last = state.bookings)
    /\ [][observer'.notified <=> state'.bookings # observer.last]_vars
    /\ [][state'.bookings = state.bookings => ~observer'.notified]_vars

\* C23 witness: updateBookingStats has passed on counters equal to those
\* the store held, not all zero; the observer was not notified, and the
\* update of the pending count is still to come.
C23_Witness ==
    /\ ~observer.notified
    /\ Len(emitting) = 1
    /\ emitting[1].bookings = state.bookings
    /\ state.sync.pendingCount = state.bookings.needsSync
    /\ state.bookings.total > 0


\* What the worker posts in this step.
Posted == SubSeq(fromWorker', Len(fromWorker) + 1, Len(fromWorker'))

\* The event that belongs to a booking operation.
EventOf(type) ==
    CASE type = "SAVE_BOOKING" -> "BOOKING_SAVED"
      [] type = "UPDATE_BOOKING" -> "BOOKING_UPDATED"
      [] type = "DELETE_BOOKING" -> "BOOKING_DELETED"

\* Every successful answer to a save, update or delete posted in this step
\* comes right after the one broadcast of its operation, which carries the
\* stats its handler has taken after the write.  With `unlessNothing`, an
\* update that reports no record is answered alone.
WriteAnswered(unlessNothing) ==
    \A k \in 1..Len(Posted) :
        LET r == Posted[k]
        IN (/\ r.id # EVENT
            /\ r.type \in {"SAVE_BOOKING", "UPDATE_BOOKING", "DELETE_BOOKING"}
            /\ r.success)
           => IF unlessNothing /\ r.type = "UPDATE_BOOKING" /\ r.data = 0
              THEN Posted = <<r>>
              ELSE /\ Len(Posted) = 2
                   /\ k = 2
                   /\ Posted[1].id = EVENT
                   /\ Posted[1].type = "EVENT"
                   /\ Posted[1].src = r.id
                   /\ Posted[1].data.type = EventOf(r.type)
                   /\ r.id \in DOMAIN handlers
                   /\ handlers[r.id].pc = "finish"
                   /\ Posted[1].data.data.stats = handlers[r.id].stats
                   /\ ~handlers[r.id].stale =>
                         handlers[r.id].stats.pendingSync
                           = Cardinality(PendingIds(bookings))

\* C24: every save, update and delete the worker handles successfully, an
\* update or delete of an id that is not stored included, takes the stats
\* again and posts exactly one broadcast of its kind with them.
C24_WriteBroadcasts == [][WriteAnswered(FALSE)]_vars

\* C24 as the worker does it: an update that matched no record is answered
\* with 0, without stats and without a broadcast.
C24_WriteBroadcastsIfChanged == [][WriteAnswered(TRUE)]_vars

\* C24 witness: an update of an id that is not stored has been answered
\* with 0 and no broadcast goes before the answer.
C24_Witness ==
    \E k \in 1..Len(fromWorker) :
        /\ fromWorker[k].type = "UPDATE_BOOKING"
        /\ fromWorker[k].success
        /\ fromWorker[k].data = 0
        /\ k > 1 => fromWorker[k - 1].id # EVENT


\* The bookings that failed in the pass whose result this step hands to the
\* returning call of syncPendingBookings; none if no result reaches it.
FailedOfCall ==
    IF ret'.via = "resolved" THEN Head(fromWorker).data.failed ELSE 0

\* C25: a call of syncPendingBookings returns true if and only if it ended
\* with no failed booking.
C25_TrueIffNoFailure ==
    [][ret' # ret => (ret'.value <=> FailedOfCall = 0)]_vars

\* C25 as the orchestrator does it: a call that got the result of its pass
\* returns true exactly if the result counts no failure, and the reasons
\* are by then in sync.syncErrors of the data store and not in what the call
\* returns; a call with nothing pending returns true; a call refused
\* (syncing, offline) or whose request is rejected returns false.
C25_ReturnValue ==
    [][ret' # ret =>
         CASE ret'.via = "resolved" ->
                 /\ Delivers
                 /\ Head(fromWorker).type = "SYNC_BOOKINGS"
                 /\ ret'.value = (Head(fromWorker).data.failed = 0)
                 /\ state'.sync.syncErrors = Head(fromWorker).data.errors
                 /\ state'.sync.failedCount = Head(fromWorker).data.failed
                 /\ DOMAIN ret' = {"value", "via"}
           [] ret'.via = "nothing" ->
                 ret'.value /\ state'.bookings.needsSync = 0
           [] ret'.via = "syncing" -> ~ret'.value /\ state.sync.isSyncing
           [] ret'.via = "offline" -> ~ret'.value /\ ~online
           [] ret'.via = "rejected" -> ~ret'.value]_vars

\* C25 witness: a call has returned false with the result of its pass, the
\* reason of the failure in sync.syncErrors.
C25_Witness ==
    /\ ret = [value |-> FALSE, via |-> "resolved"]
    /\ state.sync.failedCount = 1
    /\ Len(state.sync.syncErrors) = 1


\* The pending counts this step asks for on behalf of the periodic and the
\* network-online subscriber.
NewTriggers == {id \in NewIds : waiting'[id].k = "trigger"}

\* This step calls syncPendingBookings: the call returns at one of its
\* guards or goes on to read the pending count.
StartsAttempt ==
    \/ \E id \in NewIds : waiting'[id].k = "sync_count"
    \/ ret'.via \in {"syncing", "offline"} /\ ~ret'.value

\* This step sends nothing and no call of syncPendingBookings returns.
NoAttempt ==
    /\ NewIds = {}
    /\ messageCounter' = messageCounter
    /\ toWorker' = toWorker
    /\ ret' = ret

Reconciled ==
    /\ state.sync.pendingCount = 0
    /\ \A b \in DOMAIN bookings : bookings[b].syncStatus = "synced"
    /\ ~state.sync.isSyncing
    /\ state.sync.lastSyncTime = "date"

BatchWritten ==
    {id \in DOMAIN handlers \cap DOMAIN handlers' :
        /\ handlers[id].type = "BATCH_UPDATE"
        /\ handlers[id].pc = "write"
        /\ handlers'[id].pc = "count"}

\* The positions of the list us that write field f of booking b.
Writes(us, b, f) ==
    {k \in 1..Len(us) : us[k].id = b /\ f \in DOMAIN us[k].updates}

\* The value of field f of booking b after the list: that of the last update
\* writing it, or the one it had.
LastWritten(us, b, f, old) ==
    IF Writes(us, b, f) = {} THEN old
    ELSE us[CHOOSE k \in Writes(us, b, f) :
                \A j \in Writes(us, b, f) : j <= k].updates[f]

\* The positions of the list whose id is stored in tbl.
Targeted(tbl, us) == {k \in 1..Len(us) : us[k].id \in DOMAIN tbl}

\* Those of them whose update alters the booking as the updates before it
\* have left it.
Altering(tbl, us) ==
    {k \in Targeted(tbl, us) :
        LET before == BatchTable(tbl, SubSeq(us, 1, k - 1))
        IN TableUpdate(before, us[k].id, us[k].updates) # before}

\* The transaction of a batch update: no booking appears or disappears, every
\* stored booking has the fields the list writes to it and its other fields
\* as before, and the count taken is the number of updates with a stored id
\* (exact), or lies between the number of those that alter their booking and
\* the number of those with a stored id.
BatchApplied(exact) ==
    \A id \in BatchWritten :
        LET us == handlers[id].payload
            count == handlers'[id].res
        IN /\ DOMAIN bookings' = DOMAIN bookings
           /\ \A b \in DOMAIN bookings : \A f \in DOMAIN bookings[b] :
                 bookings'[b][f] = LastWritten(us, b, f, bookings[b][f])
           /\ IF exact
              THEN count = Cardinality(Targeted(bookings, us))
              ELSE /\ count >= Cardinality(Altering(bookings, us))
                   /\ count <= Cardinality(Targeted(bookings, us))

\* Every answer to a batch update posted in this step is a success carrying
\* the count its handler has taken.
BatchAnswered ==
    \A k \in 1..Len(Posted) :
        (Posted[k].id # EVENT /\ Posted[k].type = "BATCH_UPDATE")
           => /\ Posted[k].success
              /\ Posted[k].id \in DOMAIN handlers
              /\ Posted[k].data = handlers[Posted[k].id].res

\* C28: a batch update never fails because an id is not stored: it applies
\* the fields of every update whose id is stored, leaves the store as it is
\* for every update whose id is not, and returns the number of updates whose
\* id is stored.
C28_BatchCountsStored ==
    /\ [][BatchApplied(TRUE)]_vars
    /\ [][BatchAnswered]_vars

\* C28 with the count the worker returns: the number of updates for which
\* the store reported a record, which is every update that alters a stored
\* booking and no update whose id is not stored.
C28_BatchCountsReported ==
    /\ [][BatchApplied(FALSE)]_vars
    /\ [][BatchAnswered]_vars

\* C28 witness: a list of one update for a stored booking and one for an id
\* that is not stored has been answered with the count 1, the stored booking
\* cancelled.
C28_Witness ==
    \E k \in 1..Len(fromWorker) :
        /\ fromWorker[k].id # EVENT
        /\ fromWorker[k].type = "BATCH_UPDATE"
        /\ fromWorker[k].success
        /\ fromWorker[k].data = 1
        /\ DOMAIN bookings = {1}
        /\ bookings[1].status = "cancelled"
        /\ messageCounter = MaxBatchMsgs


\* The cached tickets of the route of q, on the calendar day of its date if
\* it has one.
Matching(tbl, q) ==
    {tbl[id] : id \in {x \in DOMAIN tbl :
                          /\ tbl[x].from = q.from
                          /\ tbl[x].to = q.to
                          /\ q.date # NoDate => tbl[x].date.day = q.date.day}}

\* C29: a search returns the cached tickets of its route, all of them if no
\* date is given and otherwise those of the date's calendar day whatever
\* the time of day: after a ticket of route (A, B) and date D is cached,
\* the search for (A, B, D) returns it, the search for (A, B) returns it
\* among the tickets of the route and the search for (A, B, D + 1 day)
\* does not return it.  This is so for the search through the UI thread's
\* store handle and for the search the worker answers.
C29_SearchFindsCached ==
    /\ [][found' # found =>
             found'.tickets = Matching(tickets, found'.query)]_vars
    /\ [][\A k \in 1..Len(Posted) :
             (Posted[k].id # EVENT /\ Posted[k].type = "SEARCH_TICKETS")
                => /\ Posted[k].success
                   /\ Posted[k].data
                        = Matching(tickets, handlers[Posted[k].id].payload)]_vars


\* The stored bookings whose status this step changes.
StatusChanged ==
    {b \in DOMAIN bookings \cap DOMAIN bookings' :
        bookings'[b].status # bookings[b].status}

\* The step is the store write of the cancel action for booking b: the
\* UPDATE_BOOKING request of MyBookingComponent.cancelBooking.
CancelWrites(b) ==
    \E id \in DOMAIN handlers :
        /\ handlers[id].type = "UPDATE_BOOKING"
        /\ handlers[id].pc = "write"
        /\ handlers[id].payload.bookingId = b
        /\ "status" \in DOMAIN handlers[id].payload.updates
        /\ handlers[id].payload.updates.status = "cancelled"
        /\ bookings' = TableUpdate(bookings, b, handlers[id].payload.updates)

\* C30: every change of the status of a stored booking is made by the
\* cancel action; no other operation, the reconcile pass included, changes
\* the status of a booking that stays in the store.
C30_StatusByCancelOnly ==
    [][\A b \in StatusChanged : CancelWrites(b)]_vars


\* The step is the write of a reconcile pass for booking b after its remote
\* call succeeded: the booking is in the batch a pass waits for and is set
\* to synced and confirmed.
PassConfirms(b) ==
    \E id \in DOMAIN handlers :
        /\ handlers[id].type = "SYNC_BOOKINGS"
        /\ handlers[id].pc = "wait"
        /\ \E k \in handlers[id].inflight : handlers[id].sel[k] = b
        /\ bookings' = TableUpdate(bookings, b,
                          [syncStatus |-> "synced", status |-> "confirmed"])

\* C30 as the application does it: the status of a stored booking is changed
\* by the cancel action, which sets it to cancelled, and by the reconcile
\* pass, which sets it to confirmed when the booking's remote call has
\* succeeded; a failed remote call leaves the status as it is.
C30_StatusByCancelOrPass ==
    [][\A b \in StatusChanged : CancelWrites(b) \/ PassConfirms(b)]_vars

\* C30 witness: a pass has confirmed the stored booking and the data store
\* shows the pass finished.
C30_Witness ==
    /\ 1 \in DOMAIN bookings
    /\ bookings[1] = [status |-> "confirmed", syncStatus |-> "synced"]
    /\ state.bookings.total = 1
    /\ state.sync.lastSyncTime = "date"
    /\ waiting = EmptyFn


\* The stored bookings whose syncStatus this step moves from pending to
\* synced or to failed.
LeftPending ==
    {b \in DOMAIN bookings \cap DOMAIN bookings' :
        /\ bookings[b].syncStatus = "pending"
        /\ bookings'[b].syncStatus \in {"synced", "failed"}}

\* The step is a write of a reconcile pass for booking b, which is in the
\* batch the pass waits for: the write after its remote call.
PassWrites(b) ==
    \E id \in DOMAIN handlers :
        /\ handlers[id].type = "SYNC_BOOKINGS"
        /\ handlers[id].pc = "wait"
        /\ \E k \in handlers[id].inflight : handlers[id].sel[k] = b
        /\ \E ok \in BOOLEAN : bookings' = TableUpdate(bookings, b, Changes(ok))

\* C31: every move of a stored booking's syncStatus from pending to synced
\* or to failed is made by a write of the worker's reconcile pass; creating,
\* cancelling and deleting bookings from the UI never moves it.
C31_SyncStatusByPassOnly ==
    [][\A b \in LeftPending : PassWrites(b)]_vars


-----------------------------------------------------------------------------
(* The sample data: DataInitService.initializeSampleData runs from         *)
(* AppComponent.ngOnInit and from HomeComponent.ngOnInit, refreshCache     *)
(* forces it.  Each call is a chain of store requests on the UI thread's   *)
(* own handle; the calls interleave with each other and with everything    *)
(* else at their awaits.                                                   *)

MaxSeeds == 2         \* calls of initializeSampleData in a run of SeedSpec

CURRENT_VERSION == "1.0.0"

\* DataInitService.generateSampleTickets
generateSampleTickets ==
    <<[id |-> "X", from |-> "A", to |-> "B",
       date |-> [day |-> 1, time |-> "morning"]],
      [id |-> "Y", from |-> "B", to |-> "A",
       date |-> [day |-> 2, time |-> "morning"]]>>

SeedUnchanged ==
    UNCHANGED <<online, state, messageCounter, waiting, toWorker, ret, worker,
                emitting, observer, found, db, nextId, fromWorker, navigating>>

\* A call of initializeSampleData up to its first await: cachedVersion is
\* read, getCachedTickets is awaited.
StartSeeding(version) ==
    /\ Cardinality(DOMAIN seeding) < MaxSeeds
    /\ seeding' = Put(seeding, Cardinality(DOMAIN seeding) + 1,
                      [pc |-> "read", cachedVersion |-> version])

\* DataInitService.initializeSampleData
InitializeSampleData ==
    /\ StartSeeding(localStorage)
    /\ UNCHANGED <<localStorage, bookings, tickets, handlers>>
    /\ SeedUnchanged

\* DataInitService.refreshCache
RefreshCache ==
    /\ StartSeeding(NoVersion)
    /\ localStorage' = NoVersion
    /\ UNCHANGED <<bookings, tickets, handlers>>
    /\ SeedUnchanged

\* getCachedTickets returns: the call returns, clears or goes on to cache.
SeedRead(c) ==
    /\ c \in DOMAIN seeding
    /\ seeding[c].pc = "read"
    /\ LET cachedVersion == seeding[c].cachedVersion
           existingTickets == DOMAIN tickets
       IN seeding' = [seeding EXCEPT ![c].pc =
                         IF cachedVersion = CURRENT_VERSION /\ existingTickets # {}
                         THEN "done"
                         ELSE IF cachedVersion # CURRENT_VERSION
                              THEN "clearBookings"
                              ELSE "cache"]
    /\ UNCHANGED <<localStorage, bookings, tickets, handlers>>
    /\ SeedUnchanged

\* OfflineStorageService.clearAllData: db.bookings.clear()
SeedClearBookings(c) ==
    /\ c \in DOMAIN seeding
    /\ seeding[c].pc = "clearBookings"
    /\ bookings' = EmptyFn
    /\ handlers' = Touch(handlers)
    /\ seeding' = [seeding EXCEPT ![c].pc = "clearTickets"]
    /\ UNCHANGED <<localStorage, tickets>>
    /\ SeedUnchanged

\* OfflineStorageService.clearAllData: db.tickets.clear()
SeedClearTickets(c) ==
    /\ c \in DOMAIN seeding
    /\ seeding[c].pc = "clearTickets"
    /\ tickets' = EmptyFn
    /\ seeding' = [seeding EXCEPT ![c].pc = "cache"]
    /\ UNCHANGED <<localStorage, bookings, handlers>>
    /\ SeedUnchanged

\* cacheTickets(sampleTickets), then localStorage.setItem
SeedCache(c) ==
    /\ c \in DOMAIN seeding
    /\ seeding[c].pc = "cache"
    /\ tickets' = bulkPut(tickets, generateSampleTickets)
    /\ localStorage' = CURRENT_VERSION
    /\ seeding' = [seeding EXCEPT ![c].pc = "done"]
    /\ UNCHANGED <<bookings, handlers>>
    /\ SeedUnchanged

SeedSteps ==
    \/ \E c \in DOMAIN seeding : SeedRead(c)
    \/ \E c \in DOMAIN seeding : SeedClearBookings(c)
    \/ \E c \in DOMAIN seeding : SeedClearTickets(c)
    \/ \E c \in DOMAIN seeding : SeedCache(c)

\* The application with its sample data: bookings created, cancelled and
\* deleted from the UI while the sample data is initialised or refreshed.
SeedNext ==
    \/ InitializeSampleData
    \/ RefreshCache
    \/ SeedSteps
    \/ WorkerSteps
    \/ \E id \in DOMAIN handlers : WorkerWrite(id)
    \/ Deliver
    \/ SubmitBooking
    \/ \E b \in 1..MaxBookings : CancelBooking(b)
    \/ \E b \in 1..MaxBookings : DeleteBooking(b)

SeedSpec == Init /\ [][SeedNext]_vars

\* The bookings that are in the store before the step and not after it.
Removed == DOMAIN bookings \ DOMAIN bookings'

\* The step is the store write of the user's delete of booking b: the
\* DELETE_BOOKING request of MyBookingComponent.deleteBooking.
DeleteWrites(b) ==
    \E id \in DOMAIN handlers :
        /\ handlers[id].type = "DELETE_BOOKING"
        /\ handlers[id].pc = "write"
        /\ handlers[id].payload = b
        /\ bookings' = Drop(bookings, b)

\* C32: a stored booking leaves the store only by the user's delete of that
\* booking; no other operation (sync, cancel, ticket caching, sample-data
\* initialisation, cache refresh) removes a booking from the store.
C32_RemovedByDeleteOnly ==
    [][\A b \in Removed : DeleteWrites(b)]_vars


-----------------------------------------------------------------------------
(* The booking as the booking form creates it, with the fields no later    *)
(* operation is meant to touch.                                            *)

MaxPassengers == 2    \* passengers of one booking in a run of FrameSpec

\* ticket.price of the ticket the booking form was opened for
price(ticketId) == IF ticketId = "X" THEN 1500 ELSE 800

\* The form's passengers, as many as the form array has controls.
PassengerLists == UNION {[1..n -> {"passenger"}] : n \in 1..MaxPassengers}

\* BookingComponent.submitBooking: the record handed to saveBooking, which
\* sets createdAt and syncStatus again before it adds the record.
submitBooking(ticketId, passengers, now, isOnline) ==
    [ticketId    |-> ticketId,
     passengers  |-> passengers,
     totalAmount |-> price(ticketId) * Len(passengers),
     status      |-> "pending",
     createdAt   |-> now,
     syncStatus  |-> IF isOnline THEN "synced" ELSE "pending"]

\* BookingComponent.submitBooking -> OfflineStorageService.saveBooking with
\* the whole record
SubmitBookingForm ==
    /\ nextId <= MaxBookings
    /\ \E ticketId \in TicketIds, passengers \in PassengerLists, now \in 1..MaxDay :
          bookings' = Put(bookings, nextId,
                          submitBooking(ticketId, passengers, now, online))
    /\ nextId' = nextId + 1
    /\ handlers' = Touch(handlers)
    /\ UNCHANGED <<db, tickets, fromWorker>>
    /\ UIUnchanged

FrameNext ==
    \/ WorkerSteps
    \/ PassSteps
    \/ \E id \in DOMAIN handlers : WorkerWrite(id)
    \/ Deliver
    \/ GoOnline
    \/ GoOffline
    \/ SyncNow
    \/ SubmitBookingForm
    \/ \E b \in 1..MaxBookings : CancelBooking(b)
    \/ \E b \in 1..MaxBookings : DeleteBooking(b)

FrameSpec == Init /\ [][FrameNext]_vars

\* The fields of a booking that are fixed when it is created.
Fixed(r) == <<r.createdAt, r.totalAmount, r.ticketId, r.passengers>>

\* C33: once a booking is stored, its createdAt, totalAmount, ticketId and
\* passengers never change: every step, the writes of the reconcile pass
\* and of the cancel included, leaves them as they are for every booking
\* that stays in the store, and totalAmount is the ticket's price times the
\* number of passengers, as computed at creation.
C33_CreationFieldsFixed ==
    /\ [](\A b \in DOMAIN bookings :
             bookings[b].totalAmount =
                 price(bookings[b].ticketId) * Len(bookings[b].passengers))
    /\ [][\A b \in DOMAIN bookings \cap DOMAIN bookings' :
             Fixed(bookings'[b]) = Fixed(bookings[b])]_vars

\* A booking for two passengers was created offline and cancelled, and a
\* pass has then confirmed it: both writes have acted on it.
C33_Witness ==
    \E b \in DOMAIN bookings :
        /\ bookings[b].status = "confirmed"
        /\ Len(bookings[b].passengers) = 2
        /\ ~state.sync.isSyncing
        /\ state.sync.lastSyncTime # "null"

-----------------------------------------------------------------------------
(* The application started on a store an earlier session has left: some    *)
(* bookings synced, some still pending, some set to failed by a pass of    *)
(* that session.  retryFailedSyncs is called, any number of times.         *)

MaxRetryBookings == 2 \* bookings in the store of RetrySpec

\* The records the operations of the application leave in the store.
StoredInputs ==
    {[status |-> "pending", syncStatus |-> "pending"],
     [status |-> "cancelled", syncStatus |-> "pending"],
     [status |-> "pending", syncStatus |-> "failed"],
     [status |-> "cancelled", syncStatus |-> "failed"],
     [status |-> "pending", syncStatus |-> "synced"],
     [status |-> "confirmed", syncStatus |-> "synced"],
     [status |-> "cancelled", syncStatus |-> "synced"]}

RetryInit ==
    /\ worker = TRUE
    /\ online = TRUE
    /\ \E n \in 0..MaxRetryBookings : bookings \in [1..n -> StoredInputs]
    /\ nextId = Cardinality(DOMAIN bookings) + 1
    /\ db = FALSE
    /\ tickets = EmptyFn
    /\ handlers = EmptyFn
    /\ fromWorker = <<>>
    /\ emitting = <<>>
    /\ observer = NoObserver
    /\ found = NoSearch
    /\ localStorage = NoVersion
    /\ seeding = EmptyFn
    /\ navigating = FALSE
    /\ state = StartUI(online).state
    /\ messageCounter = StartUI(online).mc
    /\ waiting = StartUI(online).waiting
    /\ toWorker = StartUI(online).out
    /\ ret = StartUI(online).ret

RetryNext ==
    \/ WorkerSteps
    \/ PassSteps
    \/ Deliver
    \/ RetryFailedSyncs

RetrySpec == RetryInit /\ [][RetryNext]_vars

\* The bookings an earlier pass has set to failed.
FailedIds(tbl) == {b \in DOMAIN tbl : tbl[b].syncStatus = "failed"}

\* This step hands retryFailedSyncs the answer of the count it awaits.
RetryCounted ==
    /\ Delivers
    /\ Head(fromWorker).id \in DOMAIN waiting
    /\ waiting[Head(fromWorker).id].k = "retry"

\* This step is the query of the pass of request id returning its selection.
Selects(id) ==
    /\ id \in DOMAIN handlers'
    /\ handlers[id].type = "SYNC_BOOKINGS"
    /\ handlers[id].pc = "select"
    /\ handlers'[id].pc # "select"

\* C34: retryFailedSyncs syncs the bookings an earlier pass has set to
\* failed: when its count returns while the application is online and idle
\* and a failed booking is stored, it goes on to syncPendingBookings, and
\* the pass that a sync starts selects every failed booking of the store
\* for another attempt.
C34_RetryAttemptsFailed ==
    /\ [][(RetryCounted /\ online /\ ~state.sync.isSyncing
             /\ FailedIds(bookings) # {}) =>
            \E id \in DOMAIN waiting' \ DOMAIN waiting :
               waiting'[id].k = "sync_count"]_vars
    /\ [][\A id \in DOMAIN handlers :
            Selects(id) =>
               \A b \in FailedIds(bookings) :
                  \E k \in 1..Len(handlers'[id].sel) : handlers'[id].sel[k] = b]_vars


\* C35: a cancelled booking stays cancelled: no step changes the status of
\* a stored booking from cancelled to anything else, the write of a pass
\* that syncs a booking cancelled while offline included.
C35_CancelledStays ==
    [][\A b \in DOMAIN bookings \cap DOMAIN bookings' :
          bookings[b].status = "cancelled" => bookings'[b].status = "cancelled"]_vars


-----------------------------------------------------------------------------
(* One reconcile pass with everything that can happen to it: the bridge's  *)
(* timer runs out while the worker is still at it, and the store may fail  *)
(* the queries of the pass, the one getStats makes at its end included.    *)
(* Both event loops run every task that is ready and every timer fires.    *)

MaxGuardBookings == 6 \* bookings in the store of GuardSpec

\* getStats: the store fails `db.bookings.count()`; the rejection passes
\* through the operation to the catch block of handleMessage, which answers
\* with the error.  No event is broadcast.
StatsFails(id) ==
    /\ id \in DOMAIN handlers
    /\ handlers[id].pc = "count"
    /\ fromWorker' = Append(fromWorker, ErrorResponse(handlers[id], "store error"))
    /\ handlers' = Drop(handlers, id)
    /\ UNCHANGED <<bookings, nextId, db, tickets>>
    /\ UIUnchanged

GuardInit ==
    /\ PassInit
    /\ Cardinality(DOMAIN bookings) <= MaxGuardBookings

\* The query of a pass is answered, one way or the other.
PassSelected ==
    \E id \in DOMAIN handlers : PassSelect(id) \/ PassSelectFails(id)

\* A remote call of a pass settles, one way or the other.
PassBookingSettles ==
    \E id \in DOMAIN handlers :
       \E k \in handlers[id].inflight : \E ok \in BOOLEAN : PassBooking(id, k, ok)

\* The first count of getStats is answered, one way or the other.
StatsCounted ==
    \E id \in DOMAIN handlers : StatsCount(id) \/ StatsFails(id)

\* getStats goes on and its caller posts what it has to post.
StatsFinished ==
    \E id \in DOMAIN handlers : StatsPending(id) \/ Finish(id)

GuardNext ==
    \/ WorkerReceive
    \/ PassSelected
    \/ PassBookingSettles
    \/ StatsCounted
    \/ StatsFinished
    \/ Deliver
    \/ \E id \in DOMAIN waiting : Timeout(id)

GuardSpec ==
    /\ GuardInit
    /\ [][GuardNext]_vars
    /\ WF_vars(WorkerReceive)
    /\ WF_vars(PassSelected)
    /\ WF_vars(PassBookingSettles)
    /\ WF_vars(StatsCounted)
    /\ WF_vars(StatsFinished)
    /\ WF_vars(Deliver)
    /\ WF_vars(\E id \in DOMAIN waiting : Timeout(id))

\* C36: whenever sync.isSyncing is true, whether the orchestrator has set
\* it or a SYNC_PROGRESS event, one arriving after the bridge's timeout
\* included, it is false again at some later time.
C36_SyncingEnds ==
    state.sync.isSyncing ~> ~state.sync.isSyncing


-----------------------------------------------------------------------------
(* Every operation of the worker that broadcasts, requested from the UI    *)
(* thread in any order: save, cancel (update), delete, batch update and    *)
(* sync.                                                                   *)

MaxEventMsgs == 4     \* requests sent before the last write of a run of EventSpec

\* A write requested from the UI: a save, a cancel or a delete.
EventWrite ==
    /\ messageCounter < MaxEventMsgs
    /\ \/ SaveBooking
       \/ \E b \in 1..MaxBookings : CancelBooking(b)
       \/ \E b \in 1..MaxBookings : DeleteBooking(b)

EventNext ==
    \/ WorkerSteps
    \/ PassSteps
    \/ \E id \in DOMAIN handlers : WorkerWrite(id)
    \/ Deliver
    \/ SyncNow
    \/ BatchUpdateBookings
    \/ EventWrite

EventSpec == Init /\ [][EventNext]_vars

\* The event each operation broadcasts.
Announces(type) ==
    CASE type = "SAVE_BOOKING" -> "BOOKING_SAVED"
      [] type = "UPDATE_BOOKING" -> "BOOKING_UPDATED"
      [] type = "DELETE_BOOKING" -> "BOOKING_DELETED"
      [] type = "BATCH_UPDATE" -> "STATS_CHANGED"
      [] type = "SYNC_BOOKINGS" -> "SYNC_COMPLETED"

\* m is the successful answer of an operation that has broadcast: a save, a
\* delete, a batch update, a sync, or an update that reported a record.
AnswersBroadcaster(m) ==
    /\ m.id # EVENT
    /\ m.success
    /\ m.type \in {"SAVE_BOOKING", "UPDATE_BOOKING", "DELETE_BOOKING",
                   "BATCH_UPDATE", "SYNC_BOOKINGS"}
    /\ m.type = "UPDATE_BOOKING" => m.data > 0

\* e is the event of the operation that m answers.
IsEventOf(e, m) ==
    /\ e.id = EVENT
    /\ e.src = m.id
    /\ e.data.type = Announces(m.type)

\* This step resolves the promise of the caller of a broadcasting operation.
ResolvesBroadcaster ==
    /\ Delivers
    /\ AnswersBroadcaster(Head(fromWorker))
    /\ Head(fromWorker).id \in DOMAIN waiting

-----------------------------------------------------------------------------
(* The worker on its own: messages of every type are posted to it one     *)
(* after the other, INIT_DB first or not, and nothing takes what it posts, *)
(* so that fromWorker holds every message it has ever posted.  Its event   *)
(* loop runs every task that is ready.                                     *)

MaxWorkerMsgs == 2    \* messages posted to the worker in a run of WorkerSpec

\* The messages posted: every type of the bridge and one the worker does
\* not know, each with a payload of its kind.
WorkerInputs ==
    {[type |-> t, payload |-> "null"] :
        t \in {"INIT_DB", "GET_BOOKINGS", "SYNC_BOOKINGS", "GET_STATS",
               "ANALYZE_DATA", "NO_SUCH_TYPE"}}
      \cup {[type |-> "SAVE_BOOKING", payload |-> b] : b \in SaveInputs}
      \cup {[type |-> "UPDATE_BOOKING",
             payload |-> [bookingId |-> b, updates |-> [status |-> "cancelled"]]] :
                b \in 1..2}
      \cup {[type |-> "DELETE_BOOKING", payload |-> 1]}
      \cup {[type |-> "BATCH_UPDATE", payload |-> us] :
                us \in {<<>>, <<[id |-> 1, updates |-> [syncStatus |-> "pending"]]>>}}
      \cup {[type |-> "SEARCH_TICKETS",
             payload |-> [from |-> "A", to |-> "B", date |-> NoDate]]}
      \cup {[type |-> "CACHE_TICKETS", payload |-> generateSampleTickets]}

\* postMessage to the worker, by a caller that awaits the answer to each
\* request before it sends the next
PostToWorker ==
    /\ messageCounter < MaxWorkerMsgs
    /\ toWorker = <<>>
    /\ handlers = EmptyFn
    /\ \E m \in WorkerInputs :
          toWorker' = Append(toWorker, [id |-> MsgId(messageCounter + 1),
                                        type |-> m.type, payload |-> m.payload])
    /\ messageCounter' = messageCounter + 1
    /\ UNCHANGED <<online, bookings, nextId, db, tickets, state, waiting,
                   fromWorker, handlers, ret, worker, emitting, observer,
                   found, localStorage, seeding, navigating>>

\* getBookings / analyzeBookingData: what the operation returns
ReadData(type) ==
    IF type = "GET_BOOKINGS" THEN bookings
    ELSE [bookingsByStatus |->
             [s \in {bookings[b].status : b \in DOMAIN bookings} |->
                 Cardinality({b \in DOMAIN bookings : bookings[b].status = s})]]

\* getBookings / analyzeBookingData: the awaited reads, then the answer
WorkerRead(id) ==
    /\ id \in DOMAIN handlers
    /\ handlers[id].pc = "read"
    /\ handlers' = Drop(handlers, id)
    /\ fromWorker' = Append(fromWorker,
                            Response(handlers[id], ReadData(handlers[id].type)))
    /\ UNCHANGED <<bookings, nextId, db, tickets>>
    /\ UIUnchanged

\* A handler returns and handleMessage answers the request; each of these
\* steps ends the handler.
WorkerAnswers ==
    \E id \in DOMAIN handlers :
       /\ handlers' = Drop(handlers, id)
       /\ Finish(id) \/ WorkerRead(id) \/ WorkerCache(id) \/ WorkerSearch(id)

WorkerInit ==
    /\ worker = TRUE
    /\ online = TRUE
    /\ \E n \in 0..1 : bookings \in [1..n -> StoredInputs]
    /\ nextId = Cardinality(DOMAIN bookings) + 1
    /\ db = FALSE
    /\ tickets = EmptyFn
    /\ handlers = EmptyFn
    /\ fromWorker = <<>>
    /\ toWorker = <<>>
    /\ emitting = <<>>
    /\ observer = NoObserver
    /\ found = NoSearch
    /\ localStorage = NoVersion
    /\ seeding = EmptyFn
    /\ navigating = FALSE
    /\ state = initialState(TRUE)
    /\ messageCounter = 0
    /\ waiting = EmptyFn
    /\ ret = NoReturn

\* onmessage takes the message at the head of the worker's queue.
WorkerTakes ==
    /\ toWorker # <<>>
    /\ toWorker' = Tail(toWorker)
    /\ WorkerReceive

WorkerNext ==
    \/ PostToWorker
    \/ WorkerTakes
    \/ PassSelected
    \/ PassBookingSettles
    \/ StatsCounted
    \/ \E id \in DOMAIN handlers : StatsPending(id)
    \/ \E id \in DOMAIN handlers : WorkerWrite(id)
    \/ WorkerAnswers

WorkerSpec ==
    /\ WorkerInit
    /\ [][WorkerNext]_vars
    /\ WF_vars(WorkerTakes)
    /\ WF_vars(PassSelected)
    /\ WF_vars(PassBookingSettles)
    /\ WF_vars(StatsCounted)
    /\ WF_vars(\E id \in DOMAIN handlers : StatsPending(id))
    /\ WF_vars(\E id \in DOMAIN handlers : WorkerWrite(id))
    /\ WF_vars(WorkerAnswers)

\* The answers to request id among what the worker has posted.
AnswersTo(id) == {k \in 1..Len(fromWorker) : fromWorker[k].id = id}

\* The request is with the worker: posted to it and not yet received, or
\* being handled.
WithWorker(id) ==
    \/ \E k \in 1..Len(toWorker) : toWorker[k].id = id
    \/ id \in DOMAIN handlers

\* This step receives a message that makes handleMessage throw at once: a
\* type the switch does not know, or an operation with no database yet.
ThrowsAtOnce ==
    /\ toWorker # <<>>
    /\ toWorker' = Tail(toWorker)
    /\ \/ Head(toWorker).type \notin WorkerMessageTypes
       \/ ~db /\ Head(toWorker).type # "INIT_DB"

\* C38: every message the worker receives is answered in the end, and
\* answered once, with its own id and type: a request that is with the
\* worker gets its answer; no request has two answers and none has one
\* while it is still with the worker; each answer posted bears the id and
\* type of the request it ends; a failure carries success = false and an
\* error string; and a message of an unknown type, or an operation asked
\* for before INIT_DB, is answered with such a failure.
C38_AnsweredOnce ==
    /\ \A n \in 1..MaxWorkerMsgs :
          WithWorker(MsgId(n)) ~> (AnswersTo(MsgId(n)) # {})
    /\ [](\A n \in 1..MaxWorkerMsgs :
             /\ Cardinality(AnswersTo(MsgId(n))) <= 1
             /\ WithWorker(MsgId(n)) => AnswersTo(MsgId(n)) = {})
    /\ [][\A j \in 1..Len(Posted) :
             Posted[j].id # EVENT =>
                \/ /\ Posted[j].id \in DOMAIN handlers \ DOMAIN handlers'
                   /\ Posted[j].type = handlers[Posted[j].id].type
                \/ /\ toWorker # <<>> /\ toWorker' = Tail(toWorker)
                   /\ Posted[j].id = Head(toWorker).id
                   /\ Posted[j].type = Head(toWorker).type]_vars
    /\ [](\A k \in 1..Len(fromWorker) :
             (fromWorker[k].id # EVENT /\ ~fromWorker[k].success) =>
                /\ "error" \in DOMAIN fromWorker[k]
                /\ fromWorker[k].error \in STRING)
    /\ [][ThrowsAtOnce =>
             /\ Len(Posted) = 1
             /\ Posted[1].id = Head(toWorker).id
             /\ ~Posted[1].success]_vars

\* A message of an unknown type and an operation asked for before INIT_DB
\* have both been received and answered with a failure.
C38_Witness ==
    /\ ~db
    /\ toWorker = <<>>
    /\ \E k \in 1..Len(fromWorker) :
          fromWorker[k].type = "NO_SUCH_TYPE" /\ ~fromWorker[k].success
    /\ \E k \in 1..Len(fromWorker) :
          fromWorker[k].type = "SYNC_BOOKINGS" /\ ~fromWorker[k].success


-----------------------------------------------------------------------------
(* The snapshots of getStats.                                              *)

\* The stats a message of the worker carries: the data of the answer to
\* GET_STATS, the stats of an event; none in a failure, in another answer
\* or in SYNC_PROGRESS.
Snapshots(m) ==
    IF m.id = EVENT
    THEN IF m.data.type = "SYNC_PROGRESS" THEN {}
         ELSE IF m.data.type = "STATS_CHANGED" THEN {m.data.data}
         ELSE {m.data.data.stats}
    ELSE IF m.type = "GET_STATS" /\ m.success THEN {m.data} ELSE {}

\* C39: every snapshot of getStats, answered to a caller or carried in an
\* event, counts no more bookings waiting for the remote service than
\* bookings, whatever writes of the UI thread's store handle or of other
\* requests fall between its two counts.
C39_PendingWithinTotal ==
    \A k \in 1..Len(fromWorker) :
       \A st \in Snapshots(fromWorker[k]) : st.pendingSync <= st.bookings


-----------------------------------------------------------------------------
(* The booking-submission flow to its end: the booking is stored through   *)
(* the UI thread's store handle, the router opens My Bookings, and the     *)
(* list, once loaded, asks the worker for the counts.                      *)

\* BookingComponent.submitBooking up to the return of
\* OfflineStorageService.saveBooking: the booking is in the store; the alert
\* and router.navigate(['/my-bookings']) follow.
SubmitBookingSave ==
    /\ ~navigating
    /\ nextId <= MaxBookings
    /\ bookings' = Put(bookings, nextId,
                       [status |-> "pending",
                        syncStatus |-> IF online THEN "synced" ELSE "pending"])
    /\ nextId' = nextId + 1
    /\ handlers' = Touch(handlers)
    /\ navigating' = TRUE
    /\ UNCHANGED <<online, state, messageCounter, waiting, toWorker, ret,
                   worker, emitting, observer, found, localStorage, seeding,
                   db, tickets, fromWorker>>

\* MyBookingComponent.ngOnInit: loadBookings has read the store and
\* syncService.updatePendingCount sends GET_STATS.  The list shows its
\* bookings from here on.
OpenMyBookings ==
    /\ navigating
    /\ CanStart(1)
    /\ SetCall(updatePendingCount(UI, [k |-> "count", caller |-> "none"]))
    /\ navigating' = FALSE
    /\ UNCHANGED online
    /\ StoreUnchanged

SubmitNext ==
    \/ WorkerSteps
    \/ PassSteps
    \/ \E id \in DOMAIN handlers : WorkerWrite(id)
    \/ Deliver
    \/ GoOnline
    \/ GoOffline
    \/ SyncNow
    \/ SubmitBookingSave
    \/ OpenMyBookings
    \/ \E b \in 1..MaxBookings : ~navigating /\ CancelBooking(b)
    \/ \E b \in 1..MaxBookings : ~navigating /\ DeleteBooking(b)

SubmitSpec == Init /\ [][SubmitNext]_vars

\* Nothing is in flight: no request waits for its answer, the worker has no
\* message to take and runs no operation, nothing the worker posted waits to
\* be handled, and no submission is on its way to My Bookings.
Quiescent ==
    /\ waiting = EmptyFn
    /\ toWorker = <<>>
    /\ handlers = EmptyFn
    /\ fromWorker = <<>>
    /\ ~navigating

\* C40: whenever nothing is in flight, the data store's bookings.total is
\* the number of bookings in the store and its bookings.needsSync the number
\* of them with syncStatus pending, also after a booking was created by the
\* submission flow.
C40_CountsMirrorStore ==
    Quiescent =>
       /\ state.bookings.total = Cardinality(DOMAIN bookings)
       /\ state.bookings.needsSync = Cardinality(PendingIds(bookings))

=============================================================================
